---- MODULE Spec2Model ----
(***************************************************************************)
(* Verification model of the ForceEqualAI retrieval core:                  *)
(*   - PersistentVectorStore (lib/vector-store)                            *)
(*   - the upload route that ingests documents into it                     *)
(*   - the retrieval paths of the chat routes (hybrid dense pass,          *)
(*     semantic search of the adaptive engine)                             *)
(* Document ids and file names are sequences of tokens, so that the        *)
(* string operations of the store (template literals, endsWith, replace)   *)
(* are computed, not assumed.  Scores are exact rationals [n, d].          *)
(***************************************************************************)
EXTENDS Integers, Sequences, FiniteSets, TLC

VARIABLES documents, disk, running, life, limiter, store, now, admitted

\* a rate limiter: its parameters, its entries, Date.now(), and the times of
\* the requests it admitted, per client
limiterVars == <<limiter, store, now, admitted>>

vars == <<documents, disk, running, life, limiterVars>>

(***************************************************************************)
(* Bounds                                                                  *)
(***************************************************************************)
MaxChunks == 2

MaxTopK == 2

(***************************************************************************)
(* Data                                                                    *)
(***************************************************************************)
BaseIds == {<<"D1">>, <<"D2">>}

chunkA == [content |-> <<"alpha", "beta">>, embedding |-> <<3, 4>>]

chunkB == [content |-> <<"gamma", "delta">>, embedding |-> <<4, 3>>]

chunkD == [content |-> <<"beta", "delta">>, embedding |-> <<-3, 4>>]

chunkZ == [content |-> <<"omega">>, embedding |-> <<0, 0>>]

chunkW == [content |-> <<"alpha", "omega">>, embedding |-> <<0, 3, 4>>]

chunkX == [content |-> <<"alpha", "beta", "gamma", "delta">>, embedding |-> <<3, 4>>]

chunkY == [content |-> <<"alpha", "beta", "gamma", "delta", "omega">>,
           embedding |-> <<4, -3>>]

RECURSIVE SeqsUpTo(_, _)
SeqsUpTo(S, n) ==
  IF n = 0 THEN {<<>>}
  ELSE LET shorter == SeqsUpTo(S, n - 1)
       IN shorter \cup {Append(s, x) : s \in {t \in shorter : Len(t) = n - 1}, x \in S}

\* the id whose store/delete history the life-cycle properties follow, and the
\* other document of the store
TrackedId == <<"D1">>

OtherId == <<"D2">>

\* chunk lists handed to storeDocument in the life-cycle specification
StoreChunkLists == {<<>>, <<chunkA>>, <<chunkB, chunkA>>}

\* the storeDocument calls of the life-cycle specification: every list, with
\* and without metadata, for the tracked id; one list for the other document
StoreInputs ==
  {[id |-> TrackedId, chunks |-> c, meta |-> m] : c \in StoreChunkLists, m \in BOOLEAN}
    \cup {[id |-> OtherId, chunks |-> <<chunkB>>, meta |-> FALSE]}

Arr(items) == [type |-> "array", items |-> items]

MetaObj == [type |-> "object", items |-> <<>>]

Absent == [kind |-> "absent", val |-> Arr(<<>>)]

Torn == [kind |-> "torn", val |-> Arr(<<>>)]

Json(v) == [kind |-> "json", val |-> v]

Idle == [op |-> "none"]

(***************************************************************************)
(* JS Map<string, DocumentChunk[]> : insertion-ordered list of entries     *)
(***************************************************************************)
MapKeys(m) == [i \in 1..Len(m) |-> m[i].id]

MapHas(m, k) == \E i \in 1..Len(m) : m[i].id = k

MapGet(m, k) == LET i == CHOOSE j \in 1..Len(m) : m[j].id = k IN m[i].val

MapSet(m, k, v) ==
  IF MapHas(m, k)
  THEN [i \in 1..Len(m) |-> IF m[i].id = k THEN [id |-> k, val |-> v] ELSE m[i]]
  ELSE Append(m, [id |-> k, val |-> v])

MapDelete(m, k) == SelectSeq(m, LAMBDA e : e.id # k)

KeysOf(m) == {m[i].id : i \in 1..Len(m)}

(***************************************************************************)
(* File names                                                              *)
(***************************************************************************)
getFilePath(documentId) == documentId \o <<".json">>

getMetadataPath(documentId) == documentId \o <<"-metadata", ".json">>

AllPaths == {getFilePath(d) : d \in BaseIds} \cup {getMetadataPath(d) : d \in BaseIds}

EndsWithJson(file) == Len(file) > 0 /\ file[Len(file)] = ".json"

\* String.prototype.replace('.json', ''): removes the first occurrence only
ReplaceJson(file) ==
  IF \E i \in 1..Len(file) : file[i] = ".json"
  THEN LET i == CHOOSE j \in 1..Len(file) :
                  file[j] = ".json" /\ \A k \in 1..(j - 1) : file[k] # ".json"
       IN SubSeq(file, 1, i - 1) \o SubSeq(file, i + 1, Len(file))
  ELSE file

\* fs.readdirSync: the names present, in the byte order libuv's scandir sorts
\* them into ("D1-metadata.json" before "D1.json": '-' < '.')
DirOrder ==
  <<getMetadataPath(<<"D1">>), getFilePath(<<"D1">>),
    getMetadataPath(<<"D2">>), getFilePath(<<"D2">>)>>

readdirSync(dsk) == SelectSeq(DirOrder, LAMBDA p : dsk[p].kind # "absent")

\* loadFromDisk: the loop over readdirSync's listing `files`; a file that
\* does not parse throws out of the loop and keeps what was loaded before it
RECURSIVE loadLoop(_, _, _, _)
loadLoop(dsk, files, i, docs) ==
  IF i > Len(files) THEN docs
  ELSE LET file == files[i] IN
       IF ~EndsWithJson(file) THEN loadLoop(dsk, files, i + 1, docs)
       ELSE LET documentId == ReplaceJson(file)
                filePath == getFilePath(documentId)
            IN IF filePath \notin DOMAIN dsk \/ dsk[filePath].kind # "json"
               THEN docs
               ELSE loadLoop(dsk, files, i + 1, MapSet(docs, documentId, dsk[filePath].val))

loadFromDisk(dsk, files) == loadLoop(dsk, files, 1, <<>>)


(***************************************************************************)
(* Scores: exact rationals n/d with d > 0; d = 0 is NaN                    *)
(***************************************************************************)
Rat(n, d) == [n |-> n, d |-> d]

IsNaN(x) == x.d = 0

RECURSIVE GCD(_, _)
GCD(a, b) == IF b = 0 THEN a ELSE GCD(b, a % b)

Abs(n) == IF n < 0 THEN -n ELSE n

\* x > y and x >= y on numbers; a comparison with NaN is false
Gt(x, y) ==
  /\ ~IsNaN(x)
  /\ ~IsNaN(y)
  /\ LET g == GCD(x.d, y.d) IN x.n * (y.d \div g) > y.n * (x.d \div g)

Ge(x, y) ==
  /\ ~IsNaN(x)
  /\ ~IsNaN(y)
  /\ LET g == GCD(x.d, y.d) IN x.n * (y.d \div g) >= y.n * (x.d \div g)

Norm(n, d) ==
  IF d = 0 THEN Rat(0, 0)
  ELSE LET g == GCD(IF n < 0 THEN -n ELSE n, d) IN Rat(n \div g, d \div g)

\* products and sums of fractions, reduced before multiplying
Mul(x, y) ==
  IF IsNaN(x) \/ IsNaN(y) THEN Rat(0, 0)
  ELSE LET g1 == GCD(Abs(x.n), y.d)
           g2 == GCD(Abs(y.n), x.d)
       IN Norm((x.n \div g1) * (y.n \div g2), (x.d \div g2) * (y.d \div g1))

Add(x, y) ==
  IF IsNaN(x) \/ IsNaN(y) THEN Rat(0, 0)
  ELSE LET g == GCD(x.d, y.d)
       IN Norm(x.n * (y.d \div g) + y.n * (x.d \div g), (x.d \div g) * y.d)

RECURSIVE Dot(_, _, _)
Dot(a, b, i) == IF i > Len(a) THEN 0 ELSE a[i] * b[i] + Dot(a, b, i + 1)

\* Math.sqrt on the squared norms the model uses (perfect squares)
Sqrt(n) == CHOOSE r \in 0..n : r * r = n

\* PersistentVectorStore.cosineSimilarity
storeCosineSimilarity(a, b) ==
  IF Len(a) # Len(b) THEN [threw |-> TRUE, val |-> Rat(0, 1)]
  ELSE LET dotProduct == Dot(a, b, 1)
           magnitude == Sqrt(Dot(a, a, 1)) * Sqrt(Dot(b, b, 1))
       IN [threw |-> FALSE,
           val |-> IF magnitude = 0 THEN Rat(0, 1) ELSE Rat(dotProduct, magnitude)]

bySimilarity_ascending(a, b) == Gt(b.similarity, a.similarity)

\* the comparator (a, b) => b.similarity - a.similarity is negative, i.e. a is
\* ordered before b
bySimilarity(a, b) == Gt(a.similarity, b.similarity)

\* Array.prototype.sort(comparator): stable
RECURSIVE InsertDesc(_, _)
InsertDesc(sorted, x) ==
  IF sorted = <<>> THEN <<x>>
  ELSE IF bySimilarity(x, Head(sorted))
       THEN <<x>> \o sorted
       ELSE <<Head(sorted)>> \o InsertDesc(Tail(sorted), x)

RECURSIVE SortDesc(_)
SortDesc(s) ==
  IF s = <<>> THEN <<>>
  ELSE InsertDesc(SortDesc(SubSeq(s, 1, Len(s) - 1)), s[Len(s)])

Slice(s, k) == SubSeq(s, 1, IF k < Len(s) THEN k ELSE Len(s))

searchUnknown_rejects == [status |-> "NotFound", out |-> <<>>]

\* searchSimilar, lines 85-87: if (!chunks) return []
searchUnknown == [status |-> "ok", out |-> <<>>]

\* PersistentVectorStore.searchSimilar
searchSimilar(docs, queryEmbedding, documentId, topK) ==
  IF ~MapHas(docs, documentId) THEN searchUnknown
  ELSE LET v == MapGet(docs, documentId) IN
       IF v.type # "array" THEN [status |-> "TypeError", out |-> <<>>]
       ELSE LET chunks == v.items IN
            IF \E i \in 1..Len(chunks) :
                 storeCosineSimilarity(queryEmbedding, chunks[i].embedding).threw
            THEN [status |-> "Vector dimensions must match", out |-> <<>>]
            ELSE LET similarities ==
                       [i \in 1..Len(chunks) |->
                          [chunk |-> chunks[i],
                           similarity |->
                             storeCosineSimilarity(queryEmbedding, chunks[i].embedding).val]]
                     top == Slice(SortDesc(similarities), topK)
                 IN [status |-> "ok", out |-> [i \in 1..Len(top) |-> top[i].chunk]]

\* PersistentVectorStore.getAllDocuments
getAllDocuments(docs) == MapKeys(docs)

\* PersistentVectorStore.getDocumentChunks: the class declares it twice and the
\* later member is the one on the prototype; it returns undefined for an
\* unknown id
getDocumentChunks(docs, documentId) ==
  IF MapHas(docs, documentId) THEN MapGet(docs, documentId)
  ELSE [type |-> "undefined", items |-> <<>>]


(***************************************************************************)
(* File system calls.  fault: the call is rejected by the file system      *)
(* (ENOSPC, EROFS, EACCES, EIO) and fs.*Sync throws; any call may be.      *)
(* fs.writeFileSync = open(O_TRUNC) followed by the write of the data.     *)
(***************************************************************************)
writeOpen(dsk, fault, path) ==
  IF fault THEN [disk |-> dsk, threw |-> TRUE]
  ELSE [disk |-> [dsk EXCEPT ![path] = Torn], threw |-> FALSE]

writeData(dsk, fault, path, content) ==
  IF fault THEN [disk |-> dsk, threw |-> TRUE]
  ELSE [disk |-> [dsk EXCEPT ![path] = Json(content)], threw |-> FALSE]

\* if (fs.existsSync(p)) fs.unlinkSync(p)
unlinkIfExists(dsk, fault, path) ==
  IF dsk[path].kind = "absent" THEN [disk |-> dsk, threw |-> FALSE]
  ELSE IF fault THEN [disk |-> dsk, threw |-> TRUE]
  ELSE [disk |-> [dsk EXCEPT ![path] = Absent], threw |-> FALSE]

WriteAwaits_yes == TRUE

\* storeDocument / deleteDocument contain no await: each runs to its return
\* before any other request's code runs
WriteAwaits == FALSE

\* processDocumentChunks: a chunk whose embedding call fails is skipped
processDocumentChunks(textChunks, failing) ==
  LET idx == {i \in 1..Len(textChunks) : i \notin failing}
      RECURSIVE build(_)
      build(i) == IF i > Len(textChunks) THEN <<>>
                  ELSE (IF i \in idx THEN <<textChunks[i]>> ELSE <<>>) \o build(i + 1)
  IN build(1)

storeInMemory_append(docs, documentId, chunks) ==
  MapSet(docs, documentId,
         Arr((IF MapHas(docs, documentId) THEN MapGet(docs, documentId).items ELSE <<>>)
               \o chunks))

\* storeDocument, line 59: this.documents.set(documentId, chunks)
storeInMemory(docs, documentId, chunks) == MapSet(docs, documentId, Arr(chunks))

deleteFromMemory_byPath(docs, documentId) == MapDelete(docs, getFilePath(documentId))

\* deleteDocument, line 103: this.documents.delete(documentId)
deleteFromMemory(docs, documentId) == MapDelete(docs, documentId)

deleteDocument_strict(docs, dsk, faults, documentId) ==
  IF ~MapHas(docs, documentId)
  THEN [documents |-> docs, disk |-> dsk, status |-> "rejected"]
  ELSE LET a == unlinkIfExists(dsk, faults[1], getFilePath(documentId))
           b == unlinkIfExists(a.disk, faults[2], getMetadataPath(documentId))
       IN [documents |-> MapDelete(docs, documentId),
           disk |-> IF a.threw THEN a.disk ELSE b.disk, status |-> "resolved"]

\* deleteDocument as a function of the state it is called in and of whether
\* its first and second unlinkSync, if made, are rejected
deleteDocument(docs, dsk, faults, documentId) ==
  LET a == unlinkIfExists(dsk, faults[1], getFilePath(documentId)) IN
  IF a.threw
  THEN [documents |-> deleteFromMemory(docs, documentId), disk |-> a.disk,
        status |-> "resolved"]
  ELSE LET b == unlinkIfExists(a.disk, faults[2], getMetadataPath(documentId))
       IN [documents |-> deleteFromMemory(docs, documentId), disk |-> b.disk,
           status |-> "resolved"]

(***************************************************************************)
(* rate-limiter: InMemoryRateLimiter and its three instances               *)
(***************************************************************************)
uploadLimiter == [windowMs |-> 10 * 60 * 1000, maxRequests |-> 5]

chatLimiter == [windowMs |-> 60 * 1000, maxRequests |-> 20]

authLimiter == [windowMs |-> 15 * 60 * 1000, maxRequests |-> 10]

\* InMemoryRateLimiter.isAllowed at time t: the entries after the call and
\* what it returns
isAllowed(entries, config, t, identifier) ==
  IF ~MapHas(entries, identifier) \/ t >= MapGet(entries, identifier).resetTime
  THEN [store |-> MapSet(entries, identifier,
                         [count |-> 1, resetTime |-> t + config.windowMs]),
        allowed |-> TRUE, remaining |-> config.maxRequests - 1,
        resetTime |-> t + config.windowMs]
  ELSE LET entry == MapGet(entries, identifier) IN
       IF entry.count >= config.maxRequests
       THEN [store |-> entries, allowed |-> FALSE, remaining |-> 0,
             resetTime |-> entry.resetTime]
       ELSE [store |-> MapSet(entries, identifier,
                              [entry EXCEPT !.count = entry.count + 1]),
             allowed |-> TRUE,
             remaining |-> config.maxRequests - (entry.count + 1),
             resetTime |-> entry.resetTime]

\* InMemoryRateLimiter.cleanup
cleanup(entries, t) == SelectSeq(entries, LAMBDA e : ~(t >= e.val.resetTime))

\* a limiter nobody has called
LimiterUnused ==
  /\ limiter = uploadLimiter
  /\ store = <<>>
  /\ now = 0
  /\ admitted = <<>>

(***************************************************************************)
(* The store's life.  `running` is the call the single JavaScript thread   *)
(* is inside of, with the state it was called in; a call without await     *)
(* runs to its return before any other call starts.                        *)
(***************************************************************************)
Init ==
  /\ documents = <<>>
  /\ disk = [p \in AllPaths |-> Absent]
  /\ running = Idle
  /\ life = "none"
  /\ LimiterUnused

Track(id, v) == IF id = TrackedId THEN v ELSE life

\* storeDocument is called and updates the map
StoreBegin(id, chunks, meta, caller, produced) ==
  /\ running.op = "none"
  /\ documents' = storeInMemory(documents, id, chunks)
  /\ running' = [op |-> "store", id |-> id, chunks |-> chunks, meta |-> meta,
                 pc |-> "save", caller |-> caller, produced |-> produced,
                 ioFailed |-> FALSE, pre |-> documents, preDisk |-> disk,
                 yielded |-> WriteAwaits, observedBy |-> "none"]
  /\ life' = Track(id, "none")
  /\ UNCHANGED <<disk, limiterVars>>

StoreDocumentCall ==
  \E in \in StoreInputs : StoreBegin(in.id, in.chunks, in.meta, "api", in.chunks)

\* upload route: chunks, embeddings, then storeDocument under a fresh uuid
Upload ==
  \E id \in {TrackedId}, textChunks \in StoreChunkLists \ {<<>>} :
  \E failing \in SUBSET (1..Len(textChunks)) :
    /\ running.op = "none"
    /\ ~MapHas(documents, id)
    /\ disk[getFilePath(id)].kind = "absent"
    /\ disk[getMetadataPath(id)].kind = "absent"
    /\ LET chunks == processDocumentChunks(textChunks, failing) IN
       IF chunks = <<>>
       THEN /\ running' = [op |-> "upload500", id |-> id]
            /\ UNCHANGED <<documents, disk, life, limiterVars>>
       ELSE StoreBegin(id, chunks, TRUE, "upload", textChunks)

AfterSave == IF running.meta THEN "meta" ELSE "ret"

\* saveToDisk: writeFileSync opens and truncates the chunk file
StoreSaveOpen ==
  /\ running.op = "store" /\ running.pc = "save"
  /\ \E fault \in BOOLEAN :
     LET r == writeOpen(disk, fault, getFilePath(running.id)) IN
     /\ disk' = r.disk
     /\ running' = [running EXCEPT !.pc = IF r.threw THEN AfterSave ELSE "saveWrite",
                                   !.ioFailed = @ \/ r.threw]
  /\ UNCHANGED <<documents, life, limiterVars>>

\* saveToDisk: writeFileSync writes the JSON text
StoreSaveWrite ==
  /\ running.op = "store" /\ running.pc = "saveWrite"
  /\ \E fault \in BOOLEAN :
     LET r == writeData(disk, fault, getFilePath(running.id), Arr(running.chunks)) IN
     /\ disk' = r.disk
     /\ running' = [running EXCEPT !.pc = AfterSave, !.ioFailed = @ \/ r.threw]
  /\ UNCHANGED <<documents, life, limiterVars>>

\* saveMetadataToDisk, same two steps on the sidecar file
StoreMetaOpen ==
  /\ running.op = "store" /\ running.pc = "meta"
  /\ \E fault \in BOOLEAN :
     LET r == writeOpen(disk, fault, getMetadataPath(running.id)) IN
     /\ disk' = r.disk
     /\ running' = [running EXCEPT !.pc = IF r.threw THEN "ret" ELSE "metaWrite",
                                   !.ioFailed = @ \/ r.threw]
  /\ UNCHANGED <<documents, life, limiterVars>>

StoreMetaWrite ==
  /\ running.op = "store" /\ running.pc = "metaWrite"
  /\ \E fault \in BOOLEAN :
     LET r == writeData(disk, fault, getMetadataPath(running.id), MetaObj) IN
     /\ disk' = r.disk
     /\ running' = [running EXCEPT !.pc = "ret", !.ioFailed = @ \/ r.threw]
  /\ UNCHANGED <<documents, life, limiterVars>>

\* what storeDocument's promise settles to: no throw, no rejection on any path
storeDocumentOutcome(ioFailed) == "resolved"

\* upload route, lines 137-156 and the catch at 158-167
uploadResponse(outcome) == IF outcome = "resolved" THEN 200 ELSE 500

\* storeDocument returns
StoreReturn ==
  /\ running.op = "store" /\ running.pc = "ret"
  /\ running' = Idle
  /\ life' = Track(running.id, "stored")
  /\ UNCHANGED <<documents, disk, limiterVars>>

\* deleteDocument is called and updates the map
DeleteDocumentCall ==
  \E id \in BaseIds :
    /\ running.op = "none"
    /\ documents' = deleteFromMemory(documents, id)
    /\ running' = [op |-> "delete", id |-> id, pc |-> "unlinkFile",
                   pre |-> documents, preDisk |-> disk, faults |-> <<>>,
                   repeat |-> id = TrackedId /\ life = "deleted",
                   yielded |-> WriteAwaits, observedBy |-> "none"]
    /\ life' = Track(id, "none")
    /\ UNCHANGED <<disk, limiterVars>>

\* deleteDocument, lines 106-109; a throw leaves the try block
DeleteUnlinkFile ==
  /\ running.op = "delete" /\ running.pc = "unlinkFile"
  /\ \E fault \in BOOLEAN :
     LET r == unlinkIfExists(disk, fault, getFilePath(running.id)) IN
     /\ disk' = r.disk
     /\ running' = [running EXCEPT !.pc = IF r.threw THEN "ret" ELSE "unlinkMeta",
                                   !.faults = Append(@, fault)]
  /\ UNCHANGED <<documents, life, limiterVars>>

\* deleteDocument, lines 112-115
DeleteUnlinkMeta ==
  /\ running.op = "delete" /\ running.pc = "unlinkMeta"
  /\ \E fault \in BOOLEAN :
     LET r == unlinkIfExists(disk, fault, getMetadataPath(running.id)) IN
     /\ disk' = r.disk
     /\ running' = [running EXCEPT !.pc = "ret", !.faults = Append(@, fault)]
  /\ UNCHANGED <<documents, life, limiterVars>>

DeleteReturn ==
  /\ running.op = "delete" /\ running.pc = "ret"
  /\ running' = Idle
  /\ life' = Track(running.id, "deleted")
  /\ UNCHANGED <<documents, disk, limiterVars>>

QueryEmbeddings == {<<3, 4>>}

\* a read: it starts when no call is running, or inside a write that awaits
ReadStep(what, id, q, topK, status, out) ==
  /\ IF running.op = "none"
     THEN running' = [op |-> what, id |-> id, q |-> q, topK |-> topK,
                      status |-> status, out |-> out,
                      known |-> MapHas(documents, id),
                      life |-> IF id = TrackedId THEN life ELSE "none",
                      pre |-> documents, preDisk |-> disk]
     ELSE /\ running.op \in {"store", "delete"}
          /\ running.yielded
          /\ running.id = id
          /\ running' = [running EXCEPT !.observedBy = what]
  /\ UNCHANGED <<documents, disk, life, limiterVars>>

\* searchSimilar: no await inside, one step
SearchSimilarCall ==
  \E q \in QueryEmbeddings, id \in BaseIds, topK \in 0..MaxTopK :
    LET r == searchSimilar(documents, q, id, topK) IN
    ReadStep("searchSimilar", id, q, topK, r.status, r.out)

GetDocumentChunksCall ==
  \E id \in BaseIds :
    ReadStep("getDocumentChunks", id, <<>>, 0, "ok", getDocumentChunks(documents, id).items)

\* the read's (or the failed upload's) answer reaches its caller
AnswerReturn ==
  /\ running.op \notin {"none", "store", "delete"}
  /\ running' = Idle
  /\ UNCHANGED <<documents, disk, life, limiterVars>>

\* the process dies and a new one is constructed: ensureDataDir, loadFromDisk
CrashRestart ==
  /\ documents' = loadFromDisk(disk, readdirSync(disk))
  /\ running' = Idle
  /\ life' = "none"
  /\ UNCHANGED <<disk, limiterVars>>

Next ==
  \/ StoreDocumentCall
  \/ Upload
  \/ StoreSaveOpen
  \/ StoreSaveWrite
  \/ StoreMetaOpen
  \/ StoreMetaWrite
  \/ StoreReturn
  \/ DeleteDocumentCall
  \/ DeleteUnlinkFile
  \/ DeleteUnlinkMeta
  \/ DeleteReturn
  \/ SearchSimilarCall
  \/ GetDocumentChunksCall
  \/ AnswerReturn
  \/ CrashRestart

Spec == Init /\ [][Next]_vars

(***************************************************************************)
(* Retrieval: the store's cross-document search, the hybrid search of      *)
(* lib/enhancedSearch, the semantic search of the adaptive engine and the  *)
(* adaptive chat route's dispatch over them                                *)
(***************************************************************************)
RECURSIVE Concat(_)
Concat(ss) == IF ss = <<>> THEN <<>> ELSE Head(ss) \o Concat(Tail(ss))

\* the comparator (a, b) => b.score - a.score
byScore(a, b) == Gt(a.score, b.score)

RECURSIVE InsertByScore(_, _)
InsertByScore(sorted, x) ==
  IF sorted = <<>> THEN <<x>>
  ELSE IF byScore(x, Head(sorted))
       THEN <<x>> \o sorted
       ELSE <<Head(sorted)>> \o InsertByScore(Tail(sorted), x)

RECURSIVE sortByScore(_)
sortByScore(s) ==
  IF s = <<>> THEN <<>>
  ELSE InsertByScore(sortByScore(SubSeq(s, 1, Len(s) - 1)), s[Len(s)])

MinRelevance_none == Rat(0, 1)

\* the relevance threshold 0.3 of the store's cross-document search and of
\* the dense pass
MinRelevance == Rat(3, 10)

\* the first entry of the map the cross-document scan cannot score
firstUnscorable(docs, queryEmbedding) ==
  LET bad == {i \in 1..Len(docs) :
                \/ docs[i].val.type # "array"
                \/ \E j \in 1..Len(docs[i].val.items) :
                     storeCosineSimilarity(queryEmbedding,
                                           docs[i].val.items[j].embedding).threw}
  IN IF bad = {} THEN 0 ELSE CHOOSE i \in bad : \A k \in bad : i <= k

\* PersistentVectorStore.searchAcrossAllDocuments
searchAcrossAllDocuments(docs, queryEmbedding, topK) ==
  LET bad == firstUnscorable(docs, queryEmbedding) IN
  IF bad > 0
  THEN [status |-> IF docs[bad].val.type # "array" THEN "TypeError"
                   ELSE "Vector dimensions must match",
        out |-> <<>>]
  ELSE LET relevantResults(e) ==
             SelectSeq([j \in 1..Len(e.val.items) |->
                          [documentId |-> e.id,
                           chunk |-> e.val.items[j],
                           similarity |->
                             storeCosineSimilarity(queryEmbedding,
                                                   e.val.items[j].embedding).val]],
                       LAMBDA item : Gt(item.similarity, MinRelevance))
           allResults == Concat([i \in 1..Len(docs) |-> relevantResults(docs[i])])
       IN [status |-> "ok", out |-> Slice(SortDesc(allResults), topK)]

\* enhancedSearch.cosineSimilarity: 0 on a length mismatch; with a zero norm
\* the quotient is 0 / 0
cosineSimilarity(a, b) ==
  IF Len(a) # Len(b) THEN Rat(0, 1)
  ELSE Rat(Dot(a, b, 1), Sqrt(Dot(a, a, 1)) * Sqrt(Dot(b, b, 1)))

\* enhancedSearch.loadVectorStore: the documents that have chunks
loadVectorStore(docs) ==
  LET availableDocs == getAllDocuments(docs)
      loaded == [i \in 1..Len(availableDocs) |->
                   [docId |-> availableDocs[i],
                    chunks |-> getDocumentChunks(docs, availableDocs[i])]]
  IN SelectSeq(loaded, LAMBDA e : e.chunks.type = "array" /\ Len(e.chunks.items) > 0)

\* the result of generateEmbedding: a vector, or the call threw
Embedded(v) == [ok |-> TRUE, v |-> v]

EmbeddingFailed == [ok |-> FALSE, v |-> <<>>]

\* the optional documentIds parameter
AllDocuments == [defined |-> FALSE, ids |-> {}]

Only(ids) == [defined |-> TRUE, ids |-> ids]

\* documentIds && !documentIds.includes(docId) does not hold
inScope(documentIds, docId) ==
  IF documentIds.defined THEN docId \in documentIds.ids ELSE TRUE

\* enhancedSearch.performDenseRetrieval
performDenseRetrieval(docs, queryEmbedding, documentIds) ==
  IF ~queryEmbedding.ok THEN <<>>
  ELSE LET vectorStore == loadVectorStore(docs)
           ofDoc(e) ==
             IF ~inScope(documentIds, e.docId) THEN <<>>
             ELSE SelectSeq([i \in 1..Len(e.chunks.items) |->
                               [text |-> e.chunks.items[i].content,
                                score |-> cosineSimilarity(queryEmbedding.v,
                                                           e.chunks.items[i].embedding),
                                documentId |-> e.docId,
                                chunkIndex |-> i - 1]],
                            LAMBDA c : Gt(c.score, MinRelevance))
       IN sortByScore(Concat([i \in 1..Len(vectorStore) |-> ofDoc(vectorStore[i])]))

\* String.length of the words of the model's vocabulary
WordLength(w) ==
  CASE w = "" -> 0
    [] w = "of" -> 2
    [] w = "<b>" -> 3
    [] w = "beta" -> 4
    [] w = "compare" -> 7
    [] OTHER -> 5

RECURSIVE TextLength(_)
TextLength(text) ==
  IF text = <<>> THEN 0
  ELSE WordLength(Head(text)) + (IF Len(text) > 1 THEN 1 ELSE 0) + TextLength(Tail(text))

\* (text.match(regex) || []).length for the whole-word regex of a keyword
Matches(text, keyword) == Cardinality({i \in 1..Len(text) : text[i] = keyword})

SeqHas(s, x) == \E i \in 1..Len(s) : s[i] = x

\* the keywords the sparse pass looks for: keywords, entities, the query's words
allKeywordsOf(queryAnalysis) ==
  queryAnalysis.keywords \o queryAnalysis.entities \o queryAnalysis.originalQuery

\* performSparseRetrieval, lines 127-139: the loop over allKeywords from i on
RECURSIVE keywordLoop(_, _, _, _)
keywordLoop(text, queryAnalysis, allKeywords, i) ==
  IF i > Len(allKeywords) THEN [matchScore |-> 0, matchCount |-> 0]
  ELSE LET keyword == allKeywords[i]
           rest == keywordLoop(text, queryAnalysis, allKeywords, i + 1)
           matches == Matches(text, keyword)
           importance == IF SeqHas(queryAnalysis.keywords, keyword) THEN 2 ELSE 1
       IN IF WordLength(keyword) < 3 \/ matches = 0 THEN rest
          ELSE [matchScore |-> rest.matchScore + matches * importance,
                matchCount |-> rest.matchCount + 1]

\* enhancedSearch.performSparseRetrieval
performSparseRetrieval(docs, queryAnalysis, documentIds) ==
  LET vectorStore == loadVectorStore(docs)
      allKeywords == allKeywordsOf(queryAnalysis)
      scored(e, i) ==
        LET m == keywordLoop(e.chunks.items[i].content, queryAnalysis, allKeywords, 1)
        IN [text |-> e.chunks.items[i].content,
            score |-> Norm(100 * m.matchScore * m.matchCount,
                           TextLength(e.chunks.items[i].content)
                             + 100 * Len(allKeywords)),
            documentId |-> e.docId,
            chunkIndex |-> i - 1,
            matchCount |-> m.matchCount]
      ofDoc(e) ==
        IF ~inScope(documentIds, e.docId) THEN <<>>
        ELSE SelectSeq([i \in 1..Len(e.chunks.items) |-> scored(e, i)],
                       LAMBDA c : c.matchCount > 0)
      results == Concat([i \in 1..Len(vectorStore) |-> ofDoc(vectorStore[i])])
  IN sortByScore([i \in 1..Len(results) |->
                    [text |-> results[i].text, score |-> results[i].score,
                     documentId |-> results[i].documentId,
                     chunkIndex |-> results[i].chunkIndex]])

\* the fusion key `${chunk.documentId}_${chunk.chunkIndex}`
keyOf(chunk) == <<chunk.documentId, chunk.chunkIndex>>

\* findIndex(...) + 1
rankIn(results, key) ==
  IF \E i \in 1..Len(results) : keyOf(results[i]) = key
  THEN CHOOSE i \in 1..Len(results) :
         keyOf(results[i]) = key /\ \A j \in 1..(i - 1) : keyOf(results[j]) # key
  ELSE 0

RrfK == 60

rrfScore_zeroBased(denseRank, sparseRank) ==
  Add(Rat(1, RrfK + denseRank - 1), Rat(1, RrfK + sparseRank - 1))

rrfScore(denseRank, sparseRank) ==
  Add(Rat(1, RrfK + denseRank), Rat(1, RrfK + sparseRank))

denseWeightOf(queryAnalysis) ==
  IF queryAnalysis.intent = "definition" THEN Rat(7, 10) ELSE Rat(6, 10)

\* fuseSearchResults, lines 185-212: the loop over the sparse results from i on
RECURSIVE fuseSparse(_, _, _, _, _)
fuseSparse(fused, denseResults, sparseResults, sparseWeight, i) ==
  IF i > Len(sparseResults) THEN fused
  ELSE LET chunk == sparseResults[i]
           existing == rankIn(fused, keyOf(chunk))
       IN IF existing > 0
          THEN fuseSparse(
                 [fused EXCEPT ![existing].score =
                    rrfScore(rankIn(denseResults, keyOf(chunk)),
                             rankIn(sparseResults, keyOf(chunk)))],
                 denseResults, sparseResults, sparseWeight, i + 1)
          ELSE fuseSparse(
                 Append(fused, [chunk EXCEPT !.score = Mul(@, sparseWeight)]),
                 denseResults, sparseResults, sparseWeight, i + 1)

\* enhancedSearch.fuseSearchResults
fuseSearchResults(denseResults, sparseResults, queryAnalysis) ==
  LET denseWeight == denseWeightOf(queryAnalysis)
      sparseWeight == Add(Rat(1, 1), Rat(-denseWeight.n, denseWeight.d))
      weighted == [i \in 1..Len(denseResults) |->
                     [denseResults[i] EXCEPT !.score = Mul(@, denseWeight)]]
  IN sortByScore(fuseSparse(weighted, denseResults, sparseResults, sparseWeight, 1))

WordsOf(text) == {text[i] : i \in 1..Len(text)}

\* enhancedSearch.textSimilarity and AdaptiveRetrievalEngine.calculateSimilarity:
\* Jaccard coefficient of the word sets
textSimilarity(text1, text2) ==
  Rat(Cardinality(WordsOf(text1) \cap WordsOf(text2)),
      Cardinality(WordsOf(text1) \cup WordsOf(text2)))

\* applyDiversityFilter, lines 223-239: the loop over the candidates from i on
RECURSIVE diversityLoop(_, _, _, _)
diversityLoop(results, threshold, diverse, i) ==
  IF i > Len(results) THEN diverse
  ELSE IF \E j \in 1..Len(diverse) :
            Gt(textSimilarity(results[i].text, diverse[j].text), threshold)
       THEN diversityLoop(results, threshold, diverse, i + 1)
       ELSE diversityLoop(results, threshold, Append(diverse, results[i]), i + 1)

\* enhancedSearch.applyDiversityFilter
applyDiversityFilter(results, threshold) ==
  IF Len(results) <= 1 THEN results
  ELSE diversityLoop(results, threshold, <<results[1]>>, 2)

\* the optional diversityThreshold parameter
NotConfigured == [defined |-> FALSE, value |-> Rat(0, 1)]

Configured(x) == [defined |-> TRUE, value |-> x]

DefaultDiversity == Rat(7, 10)

\* params.diversityThreshold || 0.7: undefined, 0 and NaN are falsy
thresholdOrDefault(diversityThreshold) ==
  IF ~diversityThreshold.defined \/ diversityThreshold.value.n = 0
  THEN DefaultDiversity
  ELSE diversityThreshold.value

\* enhancedSearch.performHybridSearch; queryEmbedding is what generateEmbedding
\* gives for the expanded query
performHybridSearch(docs, queryAnalysis, queryEmbedding, documentIds, topK, diversityThreshold) ==
  LET denseResults == performDenseRetrieval(docs, queryEmbedding, documentIds)
      sparseResults == performSparseRetrieval(docs, queryAnalysis, documentIds)
      fusedResults == fuseSearchResults(denseResults, sparseResults, queryAnalysis)
      diverseResults ==
        applyDiversityFilter(fusedResults, thresholdOrDefault(diversityThreshold))
  IN [chunks |-> Slice(diverseResults, topK),
      totalFound |-> Len(fusedResults),
      searchStrategy |-> "hybrid_dense_sparse",
      dense |-> denseResults,
      sparse |-> sparseResults,
      fused |-> fusedResults]

\* chunk.similarity || 0.7: a DocumentChunk has no similarity field, and no code
\* of the repository writes one; a chunk parsed from a file of the data
\* directory has it when the file does
SemanticScore == Rat(7, 10)

similarityOr(chunk) ==
  IF "similarity" \in DOMAIN chunk
  THEN IF IsNaN(chunk.similarity) \/ chunk.similarity.n = 0
       THEN SemanticScore
       ELSE chunk.similarity
  ELSE SemanticScore

SemanticTopK == 5

SemanticLimit == 10

\* performSemanticSearch, lines 401-410: the loop over availableDocs from i on;
\* a searchSimilar that throws ends the search in the catch block
RECURSIVE semanticLoop(_, _, _, _)
semanticLoop(docs, queryEmbedding, availableDocs, i) ==
  IF i > Len(availableDocs) THEN [threw |-> FALSE, results |-> <<>>]
  ELSE LET docId == availableDocs[i]
           found == searchSimilar(docs, queryEmbedding, docId, SemanticTopK)
           rest == semanticLoop(docs, queryEmbedding, availableDocs, i + 1)
       IN IF found.status # "ok" THEN [threw |-> TRUE, results |-> <<>>]
          ELSE [threw |-> rest.threw,
                results |-> [j \in 1..Len(found.out) |->
                               [text |-> found.out[j].content,
                                score |-> similarityOr(found.out[j]),
                                documentId |-> docId,
                                chunkIndex |-> 0]] \o rest.results]

\* AdaptiveRetrievalEngine.performSemanticSearch
performSemanticSearch(docs, queryEmbedding) ==
  IF ~queryEmbedding.ok THEN <<>>
  ELSE LET r == semanticLoop(docs, queryEmbedding.v, getAllDocuments(docs), 1)
       IN IF r.threw THEN <<>> ELSE Slice(sortByScore(r.results), SemanticLimit)

\* AdaptiveRetrievalEngine.filterAndDeduplicate
DedupThreshold == Rat(8, 10)

filterAndDeduplicate(newContexts, existingContexts) ==
  SelectSeq(newContexts,
            LAMBDA newCtx :
              ~\E j \in 1..Len(existingContexts) :
                 Gt(textSimilarity(newCtx.text, existingContexts[j].text), DedupThreshold))

RECURSIVE SumScores(_)
SumScores(contexts) ==
  IF contexts = <<>> THEN Rat(0, 1)
  ELSE Add(Head(contexts).score, SumScores(Tail(contexts)))

\* AdaptiveRetrievalEngine.calculateAvgConfidence
calculateAvgConfidence(contexts) ==
  Mul(SumScores(contexts), Rat(1, Len(contexts)))

EarlyStopCount == 10

EarlyStopConfidence == Rat(8, 10)

DefaultStages == 3

ExpertStages == 4

\* the embedding of the query of the n-th semantic search of a request
EmbeddingAt(run, n) == run[((n - 1) % Len(run)) + 1]

\* performMultiStageRetrieval, lines 126-146: the loop from `stage` on; rounds
\* lists, for every stage run, the contexts accumulated before it, what its
\* search found and what it appended
RECURSIVE stageLoop(_, _, _, _, _, _)
stageLoop(docs, run, stages, stage, contexts, rounds) ==
  IF stage >= stages THEN [contexts |-> contexts, rounds |-> rounds]
  ELSE LET stageResults == performSemanticSearch(docs, EmbeddingAt(run, stage + 1))
           newContexts == filterAndDeduplicate(stageResults, contexts)
           grown == contexts \o newContexts
           done == Append(rounds, [before |-> contexts, found |-> stageResults,
                                   added |-> newContexts])
       IN IF Len(grown) >= EarlyStopCount
               /\ Gt(calculateAvgConfidence(grown), EarlyStopConfidence)
          THEN [contexts |-> grown, rounds |-> done]
          ELSE stageLoop(docs, run, stages, stage + 1, grown, done)

\* AdaptiveRetrievalEngine.rankContextsByRelevance with the metadata
\* enrichContextsWithMetadata gives every context: trustworthiness 0.8,
\* authority 0.7, recency 30
rankScore(ctx) ==
  Add(Add(Mul(ctx.score, Rat(4, 10)), Mul(Rat(8, 10), Rat(3, 10))),
      Add(Mul(Rat(7, 10), Rat(2, 10)), Mul(Rat(335, 365), Rat(1, 10))))

RECURSIVE InsertByRank(_, _)
InsertByRank(sorted, x) ==
  IF sorted = <<>> THEN <<x>>
  ELSE IF Gt(rankScore(x), rankScore(Head(sorted)))
       THEN <<x>> \o sorted
       ELSE <<Head(sorted)>> \o InsertByRank(Tail(sorted), x)

RECURSIVE rankContextsByRelevance(_)
rankContextsByRelevance(contexts) ==
  IF contexts = <<>> THEN <<>>
  ELSE InsertByRank(rankContextsByRelevance(SubSeq(contexts, 1, Len(contexts) - 1)),
                    contexts[Len(contexts)])

\* AdaptiveRetrievalEngine.performMultiStageRetrieval; stagesParameter is
\* strategy.parameters.stages, 0 when absent
performMultiStageRetrieval(docs, run, stagesParameter) ==
  LET stages == IF stagesParameter = 0 THEN DefaultStages ELSE stagesParameter
  IN rankContextsByRelevance(stageLoop(docs, run, stages, 0, <<>>, <<>>).contexts)

\* the rounds of the multi-stage retrieval a request's strategy runs
roundsOf(docs, strategy, run, stagesParameter) ==
  CASE strategy = "multi_stage" ->
         stageLoop(docs, run,
                   IF stagesParameter = 0 THEN DefaultStages ELSE stagesParameter,
                   0, <<>>, <<>>).rounds
    [] strategy = "expert_domain" ->
         stageLoop(docs, run, ExpertStages, 0, <<>>, <<>>).rounds
    [] OTHER -> <<>>

\* AdaptiveRetrievalEngine.performKnowledgeGraphRetrieval: one semantic search
\* per entity of the query (traverseKnowledgeGraph finds no related entities)
performKnowledgeGraphRetrieval(docs, queryAnalysis, run) ==
  Concat([i \in 1..Len(queryAnalysis.entities) |->
            performSemanticSearch(docs, EmbeddingAt(run, i))])

\* AdaptiveRetrievalEngine.performMultimodalRetrieval: the text modality is
\* always required; the visual and structured retrievals return nothing
performMultimodalRetrieval(docs, run) ==
  performSemanticSearch(docs, EmbeddingAt(run, 1))

\* advancedQA.detectMultiDocumentQuery
MultiDocIndicators ==
  {"compare", "contrast", "difference", "similar", "versus", "vs", "both",
   "across", "between"}

detectMultiDocumentQuery(query) ==
  \E i \in 1..Len(query) : query[i] \in MultiDocIndicators

\* a chat request without documentId
NoDocument == <<>>

SimpleTopK == 8

\* diversityThreshold: 0.7 in the route's call
RouteDiversity == Rat(7, 10)

\* adaptive chat route, lines 279-344: the contexts the request's retrieval
\* yields
retrieveContexts(docs, documentId, strategy, queryAnalysis, run, stagesParameter) ==
  CASE strategy = "multi_stage" ->
         performMultiStageRetrieval(docs, run, stagesParameter)
    [] strategy = "knowledge_graph" ->
         performKnowledgeGraphRetrieval(docs, queryAnalysis, run)
    [] strategy = "multimodal" ->
         performMultimodalRetrieval(docs, run)
    [] strategy = "expert_domain" ->
         performMultiStageRetrieval(docs, run, ExpertStages)
    [] OTHER ->
         performHybridSearch(docs, queryAnalysis, EmbeddingAt(run, 1),
                             IF documentId # NoDocument THEN Only({documentId})
                             ELSE AllDocuments,
                             SimpleTopK, Configured(RouteDiversity)).chunks

(***************************************************************************)
(* Retrieval over a loaded store: the store holds any documents of up to   *)
(* MaxChunks chunks; requests search it                                    *)
(***************************************************************************)
MaxStagesParameter == 2

UnknownId == <<"D3">>

SearchPool == {chunkA, chunkB, chunkD, chunkZ, chunkW}

\* the contents of the second document
OtherContents == {<<>>, <<chunkB>>, <<chunkD, chunkA>>}

\* a document of more chunks than one semantic search returns
LongStore ==
  <<[id |-> TrackedId,
     val |-> Arr(<<chunkX, chunkA, chunkB, chunkA, chunkD, chunkY>>)]>>

SearchStores ==
  {LongStore} \cup
  {(IF c1 = <<>> THEN <<>> ELSE <<[id |-> TrackedId, val |-> Arr(c1)]>>)
     \o (IF c2 = <<>> THEN <<>> ELSE <<[id |-> OtherId, val |-> Arr(c2)]>>) :
   c1 \in SeqsUpTo(SearchPool, MaxChunks), c2 \in OtherContents}

SearchQueries == {<<3, 4>>, <<4, 3>>, <<0, 0>>}

QueryAnalyses ==
  {[originalQuery |-> <<"alpha", "beta">>, keywords |-> <<"alpha">>,
    entities |-> <<>>, intent |-> "definition"],
   [originalQuery |-> <<"compare", "gamma", "of", "delta">>, keywords |-> <<"gamma">>,
    entities |-> <<"delta", "omega">>, intent |-> "comparison"]}

EmbeddingRuns ==
  {<<Embedded(<<3, 4>>), Embedded(<<3, 4>>), Embedded(<<4, 3>>), Embedded(<<3, 4>>)>>,
   <<Embedded(<<4, 3>>), EmbeddingFailed, Embedded(<<3, 4>>), Embedded(<<3, 4>>)>>,
   <<EmbeddingFailed, Embedded(<<3, 4>>), Embedded(<<3, 4>>), Embedded(<<3, 4>>)>>}

Strategies ==
  {"simple", "multi_stage", "knowledge_graph", "multimodal", "expert_domain"}

InitSearch ==
  /\ documents \in SearchStores
  /\ disk = [p \in AllPaths |->
               IF \E d \in BaseIds : p = getFilePath(d) /\ MapHas(documents, d)
               THEN Json(MapGet(documents,
                                CHOOSE d \in BaseIds : p = getFilePath(d)))
               ELSE Absent]
  /\ running = Idle
  /\ life = "none"
  /\ LimiterUnused

\* searchSimilar on the loaded store
SearchSimilarRanked ==
  \E q \in SearchQueries, id \in BaseIds \cup {UnknownId}, topK \in 0..MaxTopK :
    LET r == searchSimilar(documents, q, id, topK) IN
    ReadStep("searchSimilar", id, q, topK, r.status, r.out)

SearchAcrossAllDocumentsCall ==
  /\ running.op = "none"
  /\ \E q \in SearchQueries, topK \in 0..MaxTopK :
     \E r \in {searchAcrossAllDocuments(documents, q, topK)} :
    /\ running' = [op |-> "searchAcrossAllDocuments", q |-> q, topK |-> topK,
                   status |-> r.status, out |-> r.out]
    /\ UNCHANGED <<documents, disk, life, limiterVars>>

Scopes == {AllDocuments} \cup {Only({d}) : d \in BaseIds \cup {UnknownId}} \cup {Only(BaseIds)}

DiversityThresholds == {NotConfigured, Configured(Rat(0, 1)), Configured(Rat(1, 4))}

PerformHybridSearchCall ==
  /\ running.op = "none"
  /\ \E queryAnalysis \in QueryAnalyses, run \in EmbeddingRuns, documentIds \in Scopes,
        topK \in 1..MaxTopK, diversityThreshold \in DiversityThresholds :
     \E r \in {performHybridSearch(documents, queryAnalysis, EmbeddingAt(run, 1),
                                    documentIds, topK, diversityThreshold)} :
    /\ running' = [op |-> "performHybridSearch", queryAnalysis |-> queryAnalysis,
                   queryEmbedding |-> EmbeddingAt(run, 1), documentIds |-> documentIds,
                   topK |-> topK, diversityThreshold |-> diversityThreshold,
                   status |-> "ok", dense |-> r.dense,
                   sparse |-> r.sparse, fused |-> r.fused, chunks |-> r.chunks]
    /\ UNCHANGED <<documents, disk, life, limiterVars>>

\* adaptive chat route up to its retrieval: the strategy is the selector's
\* answer, the stages parameter is part of it
AdaptiveChat ==
  \E documentId \in BaseIds \cup {UnknownId, NoDocument}, strategy \in Strategies,
     queryAnalysis \in QueryAnalyses, run \in EmbeddingRuns,
     stagesParameter \in 0..MaxStagesParameter :
    /\ running.op = "none"
    /\ strategy \notin {"multi_stage"} => stagesParameter = 0
    /\ running' =
         IF documentId # NoDocument \/ detectMultiDocumentQuery(queryAnalysis.originalQuery)
         THEN [op |-> "chat", branch |-> "document", documentId |-> documentId,
               strategy |-> strategy, queryAnalysis |-> queryAnalysis, run |-> run,
               stagesParameter |-> stagesParameter,
               contexts |-> retrieveContexts(documents, documentId, strategy,
                                             queryAnalysis, run, stagesParameter),
               rounds |-> roundsOf(documents, strategy, run, stagesParameter)]
         ELSE [op |-> "chat", branch |-> "general", documentId |-> documentId,
               strategy |-> strategy, queryAnalysis |-> queryAnalysis, run |-> run,
               stagesParameter |-> stagesParameter, contexts |-> <<>>,
               rounds |-> <<>>]
    /\ UNCHANGED <<documents, disk, life, limiterVars>>

NextSearch ==
  \/ SearchSimilarRanked
  \/ SearchAcrossAllDocumentsCall
  \/ PerformHybridSearchCall
  \/ AdaptiveChat
  \/ AnswerReturn

SpecSearch == InitSearch /\ [][NextSearch]_vars

(***************************************************************************)
(* The chat routes. A string is the sequence of its pieces between single  *)
(* spaces (String.split(' ')): "" is the empty piece, so <<"">> is the     *)
(* empty string and <<"", "">> one space; "<b>" is an HTML tag             *)
(***************************************************************************)
EmptyString == <<"">>

\* a request body without a question string
Missing == <<>>

\* a documentId that is no uuid
MalformedId == <<"not-a-uuid">>

MaxQuestionChars == 1000

\* validation.chatSchema: question and documentId
chatSchemaAccepts(question, documentId) ==
  /\ question # Missing
  /\ TextLength(question) >= 1
  /\ TextLength(question) <= MaxQuestionChars
  /\ \E i \in 1..Len(question) : question[i] # ""
  /\ documentId # MalformedId

\* replace(/<[^>]*>/g, '')
stripTags(text) == [i \in 1..Len(text) |-> IF text[i] = "<b>" THEN "" ELSE text[i]]

RECURSIVE trimStart(_)
trimStart(text) ==
  IF Len(text) > 1 /\ Head(text) = "" THEN trimStart(Tail(text)) ELSE text

RECURSIVE trimEnd(_)
trimEnd(text) ==
  IF Len(text) > 1 /\ text[Len(text)] = ""
  THEN trimEnd(SubSeq(text, 1, Len(text) - 1))
  ELSE text

\* validation.sanitizeText; substring(0, 10000) keeps all of a text the schema
\* accepted
sanitizeText(text) == trimEnd(trimStart(stripTags(text)))

\* what the chat completion gives: the call throws, the content is no JSON,
\* the content is JSON null, or the content is a JSON object with the
\* properties named in has (an empty content is read as '{}')
OracleFails == [kind |-> "fails", has |-> {}]

Unparsable == [kind |-> "unparsable", has |-> {}]

JsonNull == [kind |-> "null", has |-> {}]

JsonObject(has, props) == [kind |-> "object", has |-> has, props |-> props]

\* x || fallback for a number
numberOr(has, name, x, fallback) ==
  IF name \in has /\ ~IsNaN(x) /\ x.n # 0 THEN x ELSE fallback

expandQuery_rethrows(query, answer) ==
  [threw |-> answer.kind # "object",
   value |-> [originalQuery |-> query, expandedQuery |-> query,
              intent |-> "question", entities |-> <<>>, keywords |-> <<>>,
              confidence |-> Rat(1, 2)]]

\* advancedQA.expandQuery
expandQuery(query, answer) ==
  IF answer.kind # "object"
  THEN [threw |-> FALSE,
        value |-> [originalQuery |-> query, expandedQuery |-> query,
                   intent |-> "question", entities |-> <<>>, keywords |-> <<>>,
                   confidence |-> Rat(1, 2)]]
  ELSE LET analysis == answer.props IN
       [threw |-> FALSE,
        value |->
          [originalQuery |-> query,
           expandedQuery |->
             IF "expandedQuery" \in answer.has /\ analysis.expandedQuery # EmptyString
             THEN analysis.expandedQuery ELSE query,
           intent |-> IF "intent" \in answer.has THEN analysis.intent ELSE "question",
           entities |-> IF "entities" \in answer.has THEN analysis.entities ELSE <<>>,
           keywords |-> IF "keywords" \in answer.has THEN analysis.keywords ELSE <<>>,
           confidence |->
             numberOr(answer.has, "confidence", analysis.confidence, Rat(1, 2))]]

selectRetrievalStrategy_default(query, answer) ==
  [threw |-> FALSE,
   value |-> [strategy |-> "simple", confidence |-> Rat(7, 10),
              reasoning |-> "default", stages |-> 0]]

\* AdaptiveRetrievalEngine.selectRetrievalStrategy; stages is
\* parameters.stages, 0 when absent
selectRetrievalStrategy(query, answer) ==
  IF answer.kind # "object"
  THEN [threw |-> FALSE,
        value |-> [strategy |-> "simple", confidence |-> Rat(1, 2),
                   reasoning |-> "fallback", stages |-> 0]]
  ELSE LET strategy == answer.props IN
       [threw |-> FALSE,
        value |->
          [strategy |-> IF "strategy" \in answer.has THEN strategy.strategy ELSE "simple",
           confidence |->
             numberOr(answer.has, "confidence", strategy.confidence, Rat(7, 10)),
           reasoning |-> IF "reasoning" \in answer.has THEN "given" ELSE "default",
           stages |-> IF "parameters" \in answer.has THEN strategy.stages ELSE 0]]

\* Math.min(x, 1)
capAtOne(x) == IF Gt(x, Rat(1, 1)) THEN Rat(1, 1) ELSE x

\* Math.max(x, y)
maxOf(x, y) ==
  IF IsNaN(x) \/ IsNaN(y) THEN Rat(0, 0) ELSE IF Gt(y, x) THEN y ELSE x

\* advancedQA.calculateAnswerConfidence
calculateAnswerConfidence(queryAnalysis, contexts, answerLength) ==
  LET base == Rat(1, 2)
      understanding == Mul(queryAnalysis.confidence, Rat(3, 10))
      avgContextScore == Mul(SumScores(contexts), Rat(1, Len(contexts)))
      quality == Mul(avgContextScore, Rat(3, 10))
      lengthScore == capAtOne(Norm(answerLength, 500))
      sourceScore == capAtOne(Norm(Len(contexts), 5))
      confidence ==
        Add(Add(Add(Add(base, understanding), quality), Mul(lengthScore, Rat(2, 10))),
            Mul(sourceScore, Rat(2, 10)))
  IN capAtOne(confidence)

\* the metadata every retrieval path attaches to a context
Trustworthiness == Rat(8, 10)

Authority == Rat(7, 10)

RECURSIVE SumMetadata(_)
SumMetadata(contexts) ==
  IF contexts = <<>> THEN Rat(0, 1)
  ELSE Add(Mul(Mul(Trustworthiness, Authority), Head(contexts).score),
           SumMetadata(Tail(contexts)))

\* adaptive chat route, lines 387-389
metadataConfidence(contexts) ==
  Mul(SumMetadata(contexts), Rat(1, Len(contexts)))

\* what answer synthesis gives: the structured answer with the confidence the
\* oracle reports, the fallback answer after the first completion threw, or
\* both completions threw
Generated(percent, answerLength) ==
  [kind |-> "ok", confidence |-> Norm(percent, 100), answerLength |-> answerLength]

GeneratedByFallback(answerLength) ==
  [kind |-> "fallback", confidence |-> Rat(6, 10), answerLength |-> answerLength]

GenerationFails == [kind |-> "fails", confidence |-> Rat(0, 1), answerLength |-> 0]

finalConfidence_uncapped(enhancedAnswer, queryAnalysis, contextChunks) ==
  maxOf(maxOf(enhancedAnswer.confidence,
              calculateAnswerConfidence(queryAnalysis, contextChunks,
                                        enhancedAnswer.answerLength)),
        metadataConfidence(contextChunks))

\* adaptive chat route, lines 391-397
finalConfidence(enhancedAnswer, queryAnalysis, contextChunks) ==
  capAtOne(maxOf(maxOf(enhancedAnswer.confidence,
                       calculateAnswerConfidence(queryAnalysis, contextChunks,
                                                 enhancedAnswer.answerLength)),
                 metadataConfidence(contextChunks)))

\* the text the retrieval of a strategy embeds first
firstEmbeddedText(strategy, queryAnalysis) ==
  IF strategy = "knowledge_graph"
  THEN IF queryAnalysis.entities = <<>> THEN <<>>
       ELSE <<<<queryAnalysis.entities[1]>>>>
  ELSE <<queryAnalysis.expandedQuery>>

\* the answers of the routes
ValidationError == [status |-> 400, kind |-> "error", sources |-> <<>>,
                    confidence |-> Rat(0, 1)]

ServerError == [status |-> 500, kind |-> "error", sources |-> <<>>,
                confidence |-> Rat(0, 1)]

NoRelevantInformation_error == ServerError

NoRelevantInformation == [status |-> 200, kind |-> "noContent", sources |-> <<>>,
                          confidence |-> Rat(0, 1)]

\* no answer yet
Pending == [status |-> 0, kind |-> "pending", sources |-> <<>>,
            confidence |-> Rat(0, 1)]

Answered(kind, sources, confidence) ==
  [status |-> 200, kind |-> kind, sources |-> sources, confidence |-> confidence]

\* a call of an external collaborator and the text it is given
Call(to, text) == [to |-> to, text |-> text]

(***************************************************************************)
(* A chat request from its validation to its answer, one step per await    *)
(***************************************************************************)
MaxQuestionLen == 2

QuestionPieces == {"", "<b>", "alpha", "compare"}

Questions == {Missing} \cup (SeqsUpTo(QuestionPieces, MaxQuestionLen) \ {<<>>})

ChatDocumentIds == {NoDocument, TrackedId, UnknownId, MalformedId}

ChatStores ==
  {<<>>,
   <<[id |-> TrackedId, val |-> Arr(<<chunkA, chunkB>>)]>>,
   <<[id |-> TrackedId, val |-> Arr(<<chunkA>>)],
     [id |-> OtherId, val |-> Arr(<<chunkD, chunkA>>)]>>}

FullAnalysis ==
  [expandedQuery |-> <<"alpha", "beta">>, intent |-> "definition",
   entities |-> <<"delta">>, keywords |-> <<"alpha">>, confidence |-> Rat(9, 10)]

AnalyzerAnswers ==
  {OracleFails, Unparsable, JsonNull,
   JsonObject({}, FullAnalysis),
   JsonObject({"expandedQuery", "intent", "entities", "keywords", "confidence"},
              FullAnalysis),
   JsonObject({"expandedQuery", "confidence"},
              [FullAnalysis EXCEPT !.expandedQuery = EmptyString,
                                   !.confidence = Rat(0, 1)])}

SelectorAnswers ==
  {OracleFails, Unparsable, JsonNull,
   JsonObject({}, [strategy |-> "simple", confidence |-> Rat(0, 1), stages |-> 0]),
   JsonObject({"strategy", "confidence"},
              [strategy |-> "multimodal", confidence |-> Rat(0, 1), stages |-> 0]),
   JsonObject({"strategy", "confidence", "reasoning"},
              [strategy |-> "hybrid", confidence |-> Rat(9, 10), stages |-> 0])}
  \cup {JsonObject({"strategy", "confidence", "reasoning", "parameters"},
                   [strategy |-> s, confidence |-> Rat(9, 10), stages |-> n]) :
        s \in Strategies, n \in {0}}
  \cup {JsonObject({"strategy", "confidence", "reasoning", "parameters"},
                   [strategy |-> "multi_stage", confidence |-> Rat(9, 10),
                    stages |-> MaxStagesParameter])}

GenerationAnswers ==
  {Generated(75, 250), Generated(150, 600), Generated(95, 40),
   GeneratedByFallback(250), GenerationFails}

InitChat ==
  /\ documents \in ChatStores
  /\ disk = [p \in AllPaths |->
               IF \E d \in BaseIds : p = getFilePath(d) /\ MapHas(documents, d)
               THEN Json(MapGet(documents,
                                CHOOSE d \in BaseIds : p = getFilePath(d)))
               ELSE Absent]
  /\ running = Idle
  /\ life = "none"
  /\ LimiterUnused

\* both routes, chatSchema.parse and sanitizeText: the request after them
validated(route, firstStep, question, documentId) ==
  IF chatSchemaAccepts(question, documentId)
  THEN [op |-> route, pc |-> firstStep, question |-> question,
        documentId |-> documentId,
        sanitizedQuestion |-> sanitizeText(question), calls |-> <<>>,
        response |-> Pending]
  ELSE [op |-> route, pc |-> "done", question |-> question,
        documentId |-> documentId, calls |-> <<>>,
        response |-> ValidationError]

\* adaptive chat route, lines 244-249
AdaptiveChatRequest ==
  /\ running.op = "none"
  /\ \E question \in Questions, documentId \in ChatDocumentIds :
       running' = validated("adaptiveChat", "expandQuery", question, documentId)
  /\ UNCHANGED <<documents, disk, life, limiterVars>>

\* basic chat route, lines 54-59
BasicChatRequest ==
  /\ running.op = "none"
  /\ \E question \in Questions, documentId \in ChatDocumentIds :
       running' = validated("basicChat", "generateEmbedding", question, documentId)
  /\ UNCHANGED <<documents, disk, life, limiterVars>>

\* adaptive chat route, line 261
ExpandQueryStep ==
  /\ running.op = "adaptiveChat"
  /\ running.pc = "expandQuery"
  /\ \E answer \in AnalyzerAnswers :
     \E r \in {expandQuery(running.sanitizedQuestion, answer)} :
       running' =
         IF r.threw
         THEN [op |-> "adaptiveChat", pc |-> "done",
               calls |-> <<Call("expandQuery", running.sanitizedQuestion)>>,
               analyzer |-> answer.kind, response |-> ServerError]
         ELSE [op |-> "adaptiveChat", pc |-> "selectRetrievalStrategy",
               documentId |-> running.documentId,
               sanitizedQuestion |-> running.sanitizedQuestion,
               calls |-> <<Call("expandQuery", running.sanitizedQuestion)>>,
               analyzer |-> answer.kind, queryAnalysis |-> r.value,
               response |-> Pending]
  /\ UNCHANGED <<documents, disk, life, limiterVars>>

\* adaptive chat route, lines 269-279
SelectStrategyStep ==
  /\ running.op = "adaptiveChat"
  /\ running.pc = "selectRetrievalStrategy"
  /\ \E answer \in SelectorAnswers :
     \E r \in {selectRetrievalStrategy(running.queryAnalysis, answer)} :
       running' =
         [pc |-> IF r.threw THEN "done"
                 ELSE IF running.documentId # NoDocument
                         \/ detectMultiDocumentQuery(running.sanitizedQuestion)
                      THEN "retrieve" ELSE "general",
          calls |-> Append(running.calls,
                           Call("selectRetrievalStrategy",
                                running.queryAnalysis.originalQuery)),
          selector |-> answer.kind,
          retrievalStrategy |-> r.value,
          response |-> IF r.threw THEN ServerError ELSE Pending]
         @@ running
  /\ UNCHANGED <<documents, disk, life, limiterVars>>

\* adaptive chat route, lines 285-362: the retrieval of the chosen strategy
RetrieveStep ==
  /\ running.op = "adaptiveChat"
  /\ running.pc = "retrieve"
  /\ \E run \in EmbeddingRuns :
     \E enhancedContexts \in
          {retrieveContexts(documents, running.documentId,
                            running.retrievalStrategy.strategy,
                            running.queryAnalysis, run,
                            running.retrievalStrategy.stages)} :
       running' =
         [pc |-> IF Len(enhancedContexts) = 0 THEN "done" ELSE "generate",
          calls |-> running.calls \o
                    [i \in 1..Len(firstEmbeddedText(running.retrievalStrategy.strategy,
                                                    running.queryAnalysis)) |->
                       Call("generateEmbedding",
                            firstEmbeddedText(running.retrievalStrategy.strategy,
                                              running.queryAnalysis)[i])],
          contexts |-> enhancedContexts,
          response |-> IF Len(enhancedContexts) = 0 THEN NoRelevantInformation
                       ELSE Pending]
         @@ running
  /\ UNCHANGED <<documents, disk, life, limiterVars>>

\* adaptive chat route, lines 365-472: generateReasonedAnswer and the
\* confidence of the answer
GenerateStep ==
  /\ running.op = "adaptiveChat"
  /\ running.pc = "generate"
  /\ \E enhancedAnswer \in GenerationAnswers :
       running' =
         [pc |-> "done",
          calls |-> Append(running.calls,
                           Call("generateReasonedAnswer",
                                running.queryAnalysis.originalQuery)),
          enhancedAnswer |-> enhancedAnswer,
          formulaConfidence |->
            IF enhancedAnswer.kind = "fails" THEN Rat(0, 1)
            ELSE calculateAnswerConfidence(running.queryAnalysis, running.contexts,
                                           enhancedAnswer.answerLength),
          response |->
            IF enhancedAnswer.kind = "fails" THEN ServerError
            ELSE Answered("answer", running.contexts,
                          finalConfidence(enhancedAnswer, running.queryAnalysis,
                                          running.contexts))]
         @@ running
  /\ UNCHANGED <<documents, disk, life, limiterVars>>

\* adaptive chat route, lines 410-472: no document and no multi-document
\* question; generateAnswer throws when its completion does
GeneralStep ==
  /\ running.op = "adaptiveChat"
  /\ running.pc = "general"
  /\ \E completes \in BOOLEAN :
       running' =
         [pc |-> "done",
          calls |-> Append(running.calls,
                           Call("generateAnswer", running.sanitizedQuestion)),
          response |-> IF completes THEN Answered("general", <<>>, Rat(7, 10))
                       ELSE ServerError]
         @@ running
  /\ UNCHANGED <<documents, disk, life, limiterVars>>

BasicTopK == 5

\* basic chat route, lines 65-88
BasicSearchStep ==
  /\ running.op = "basicChat"
  /\ running.pc = "generateEmbedding"
  /\ \E questionEmbedding \in {Embedded(<<3, 4>>), Embedded(<<0, 0>>), EmbeddingFailed} :
     \E r \in {searchSimilar(documents, questionEmbedding.v, running.documentId,
                             BasicTopK)} :
       running' =
         IF questionEmbedding.ok /\ r.status = "ok"
         THEN [pc |-> IF Len(r.out) = 0 THEN "done" ELSE "generateAnswer",
               calls |-> <<Call("generateEmbedding", running.sanitizedQuestion)>>,
               contexts |-> r.out,
               response |-> IF Len(r.out) = 0 THEN NoRelevantInformation
                            ELSE Pending]
              @@ running
         ELSE [pc |-> "done",
               calls |-> <<Call("generateEmbedding", running.sanitizedQuestion)>>,
               response |-> ServerError]
              @@ running
  /\ UNCHANGED <<documents, disk, life, limiterVars>>

\* basic chat route, lines 90-112
BasicGenerateStep ==
  /\ running.op = "basicChat"
  /\ running.pc = "generateAnswer"
  /\ \E completes \in BOOLEAN :
       running' =
         [pc |-> "done",
          calls |-> Append(running.calls,
                           Call("generateAnswer", running.sanitizedQuestion)),
          response |-> IF completes
                       THEN Answered("answer", running.contexts,
                                     capAtOne(Norm(Len(running.contexts), 3)))
                       ELSE ServerError]
         @@ running
  /\ UNCHANGED <<documents, disk, life, limiterVars>>

\* NextResponse.json reaches the client
ChatReturn ==
  /\ running.op \in {"adaptiveChat", "basicChat"}
  /\ running.pc = "done"
  /\ running' = Idle
  /\ UNCHANGED <<documents, disk, life, limiterVars>>

NextChat ==
  \/ AdaptiveChatRequest
  \/ BasicChatRequest
  \/ ExpandQueryStep
  \/ SelectStrategyStep
  \/ RetrieveStep
  \/ GenerateStep
  \/ GeneralStep
  \/ BasicSearchStep
  \/ BasicGenerateStep
  \/ ChatReturn

SpecChat == InitChat /\ [][NextChat]_vars

(***************************************************************************)
(* One rate limiter under calls of its clients; Date.now() moves over the  *)
(* instants around the window boundaries                                   *)
(***************************************************************************)
MaxWindows == 1

\* calls are followed until this many more than maxRequests were admitted
MaxOver == 2

Clients == {<<"ip1">>, <<"ip2">>}

Instants(config) ==
  UNION {{k * config.windowMs - 1, k * config.windowMs} : k \in 0..MaxWindows}
    \ {-1}

admittedTo(identifier) ==
  IF MapHas(admitted, identifier) THEN MapGet(admitted, identifier) ELSE <<>>

RECURSIVE admittedCount(_)
admittedCount(log) ==
  IF log = <<>> THEN 0 ELSE Len(Head(log).val) + admittedCount(Tail(log))

InitLimiter ==
  /\ documents = <<>>
  /\ disk = [p \in AllPaths |-> Absent]
  /\ running = Idle
  /\ life = "none"
  /\ limiter \in {uploadLimiter, chatLimiter, authLimiter}
  /\ store = <<>>
  /\ now = 0
  /\ admitted = <<>>

\* a route's limiter.isAllowed(getClientIdentifier(request))
IsAllowedCall ==
  \E identifier \in Clients :
    /\ admittedCount(admitted) < limiter.maxRequests + MaxOver
    /\ \E r \in {isAllowed(store, limiter, now, identifier)} :
         /\ store' = r.store
         /\ admitted' = IF r.allowed
                        THEN MapSet(admitted, identifier,
                                    Append(admittedTo(identifier), now))
                        ELSE admitted
         /\ running' = [op |-> "isAllowed", allowed |-> r.allowed]
    /\ UNCHANGED <<documents, disk, life, limiter, now>>

\* time passes
Tick ==
  /\ \E t \in Instants(limiter) :
       /\ t > now
       /\ now' = t
  /\ UNCHANGED <<documents, disk, running, life, limiter, store, admitted>>

\* the cleanup timer fires
CleanupTimer ==
  /\ cleanup(store, now) # store
  /\ store' = cleanup(store, now)
  /\ UNCHANGED <<documents, disk, running, life, limiter, now, admitted>>

NextLimiter ==
  \/ IsAllowedCall
  \/ Tick
  \/ CleanupTimer

SpecLimiter == InitLimiter /\ [][NextLimiter]_vars

(***************************************************************************)
(* performMultiStageRetrieval step by step: one step per awaited call, over *)
(* a loaded store that does not change during the retrieval                *)
(***************************************************************************)
Word(k) == <<<<"w", k>>>>

\* a chunk of a data file that carries a similarity property
WithSimilarity(chunk, similarity) == [similarity |-> similarity] @@ chunk

StageChunks(from, to, embedding) ==
  [i \in 1..(to - from + 1) |->
     [content |-> Word(from + i - 1), embedding |-> embedding]]

Marked(chunks, similarity) ==
  [i \in 1..Len(chunks) |-> WithSimilarity(chunks[i], similarity)]

TwoDocuments(first, second) ==
  MapSet(MapSet(<<>>, TrackedId, Arr(first)), OtherId, Arr(second))

\* what the program itself stored
plainStore == MapSet(<<>>, TrackedId, Arr(<<chunkA, chunkB>>))

\* ten chunks, every one with similarity 0.9
richStore ==
  TwoDocuments(Marked(StageChunks(1, 5, <<3, 4>>), Rat(9, 10)),
               Marked(StageChunks(6, 10, <<3, 4>>), Rat(9, 10)))

\* ten chunks whose scores average exactly 0.8
boundaryStore ==
  TwoDocuments(Marked(StageChunks(1, 5, <<3, 4>>), Rat(9, 10)),
               StageChunks(6, 10, <<3, 4>>))

\* ten chunks with similarity 0.9 of which one search finds nine
lateStore ==
  TwoDocuments(Marked(StageChunks(1, 5, <<3, 4>>) \o StageChunks(6, 6, <<4, 3>>),
                      Rat(9, 10)),
               Marked(StageChunks(7, 10, <<3, 4>>), Rat(9, 10)))

StageStores == {plainStore, richStore, boundaryStore, lateStore}

StageQuery == [originalQuery |-> <<"alpha">>, expandedQuery |-> <<"alpha", "beta">>]

\* what generateEmbedding gives for a stage's query
StageEmbeddings ==
  {[ok |-> TRUE, v |-> <<3, 4>>], [ok |-> TRUE, v |-> <<4, 3>>],
   [ok |-> FALSE, v |-> <<>>]}

\* the refinement oracle: content, no content, failure
RefinementAnswers ==
  {[threw |-> FALSE, content |-> <<"alpha", "gamma">>],
   [threw |-> FALSE, content |-> EmptyString],
   [threw |-> TRUE, content |-> Missing]}

\* generateRefinedQuery: response.choices[0].message.content || originalQuery,
\* and originalQuery from the catch block
generateRefinedQuery(originalQuery, answer) ==
  IF answer.threw \/ answer.content = EmptyString \/ answer.content = Missing
  THEN originalQuery
  ELSE answer.content

\* performMultiStageRetrieval, lines 142-145
earlyStop_countOnly(contexts) == Len(contexts) >= EarlyStopCount

earlyStop(contexts) ==
  /\ Len(contexts) >= EarlyStopCount
  /\ Gt(calculateAvgConfidence(contexts), EarlyStopConfidence)

stagesOf_default(strategy, stagesParameter) == DefaultStages

stagesOf(strategy, stagesParameter) ==
  IF strategy = "expert_domain" THEN ExpertStages
  ELSE IF stagesParameter = 0 THEN DefaultStages ELSE stagesParameter

InitStages ==
  /\ documents \in StageStores
  /\ disk = [p \in AllPaths |-> Absent]
  /\ running = Idle
  /\ life = "none"
  /\ LimiterUnused

\* the route's call of performMultiStageRetrieval, lines 120-124
MultiStageCall ==
  /\ running = Idle
  /\ \E strategy \in {"multi_stage", "expert_domain"},
        stagesParameter \in 0..MaxStagesParameter :
       running' = [op |-> "multiStage", pc |-> "retrieveForStage",
                   strategy |-> strategy, stagesParameter |-> stagesParameter,
                   stages |-> stagesOf(strategy, stagesParameter),
                   stage |-> 0, contexts |-> <<>>,
                   currentQuery |-> StageQuery.expandedQuery,
                   events |-> <<>>, result |-> <<>>]
  /\ UNCHANGED <<documents, disk, life, limiterVars>>

\* await retrieveForStage, then lines 133-139 and, on the last stage, 142-148
RetrieveForStage ==
  /\ running.op = "multiStage"
  /\ running.pc = "retrieveForStage"
  /\ \E queryEmbedding \in StageEmbeddings :
       \E stageResults \in {performSemanticSearch(documents, queryEmbedding)} :
         \E contexts \in {running.contexts
                            \o filterAndDeduplicate(stageResults, running.contexts)} :
           LET event == [kind |-> "search", stage |-> running.stage,
                         query |-> running.currentQuery,
                         before |-> running.contexts, found |-> stageResults,
                         contexts |-> contexts]
           IN IF running.stage < running.stages - 1
              THEN running' = [running EXCEPT !.pc = "generateRefinedQuery",
                                              !.contexts = contexts,
                                              !.events = Append(@, event)]
              ELSE running' = [running EXCEPT !.pc = "done",
                                              !.contexts = contexts,
                                              !.events = Append(@, event),
                                              !.result = rankContextsByRelevance(contexts)]
  /\ UNCHANGED <<documents, disk, life, limiterVars>>

\* await generateRefinedQuery, then lines 142-145 and the loop header
GenerateRefinedQuery ==
  /\ running.op = "multiStage"
  /\ running.pc = "generateRefinedQuery"
  /\ \E answer \in RefinementAnswers :
       LET refined == generateRefinedQuery(StageQuery.originalQuery, answer)
           event == [kind |-> "refine", stage |-> running.stage,
                     threw |-> answer.threw, query |-> refined]
       IN IF earlyStop(running.contexts)
          THEN running' = [running EXCEPT !.pc = "done",
                                          !.currentQuery = refined,
                                          !.events = Append(@, event),
                                          !.result = rankContextsByRelevance(running.contexts)]
          ELSE running' = [running EXCEPT !.pc = "retrieveForStage",
                                          !.stage = @ + 1,
                                          !.currentQuery = refined,
                                          !.events = Append(@, event)]
  /\ UNCHANGED <<documents, disk, life, limiterVars>>

\* the retrieval's promise resolves
MultiStageReturn ==
  /\ running.op = "multiStage"
  /\ running.pc = "done"
  /\ running' = Idle
  /\ UNCHANGED <<documents, disk, life, limiterVars>>

NextStages ==
  \/ MultiStageCall
  \/ RetrieveForStage
  \/ GenerateRefinedQuery
  \/ MultiStageReturn

SpecStages == InitStages /\ [][NextStages]_vars

(***************************************************************************)
(* performHybridSearch step by step while other requests store and delete  *)
(* documents. The dense pass and the sparse pass each await their own      *)
(* loadVectorStore; a pass is one step here, the awaits inside one         *)
(* loadVectorStore are not separated                                       *)
(***************************************************************************)
HybridStores ==
  {MapSet(<<>>, TrackedId, Arr(<<chunkA, chunkB>>)),
   MapSet(MapSet(<<>>, TrackedId, Arr(<<chunkA>>)), OtherId, Arr(<<chunkB>>))}

HybridQuery ==
  [originalQuery |-> <<"alpha", "gamma">>, expandedQuery |-> <<"alpha", "gamma">>,
   intent |-> "factual", keywords |-> <<"alpha">>, entities |-> <<>>]

\* the storeDocument calls of the other requests
OtherStoreInputs ==
  {[id |-> TrackedId, chunks |-> <<chunkB, chunkA>>],
   [id |-> OtherId, chunks |-> <<chunkB>>]}

InitHybrid ==
  /\ documents \in HybridStores
  /\ disk = [p \in AllPaths |->
               IF \E d \in BaseIds : p = getFilePath(d) /\ MapHas(documents, d)
               THEN Json(MapGet(documents,
                                CHOOSE d \in BaseIds : p = getFilePath(d)))
               ELSE Absent]
  /\ running = Idle
  /\ life = "none"
  /\ LimiterUnused

\* performHybridSearch is called, lines 20-25, up to await generateEmbedding
HybridSearchCall ==
  /\ running = Idle
  /\ \E documentIds \in {AllDocuments, Only({TrackedId})}, topK \in 1..MaxTopK :
       running' = [op |-> "hybridSearch", pc |-> "generateEmbedding",
                   documentIds |-> documentIds, topK |-> topK,
                   denseLoaded |-> FALSE, denseStore |-> <<>>, sparseStore |-> <<>>,
                   dense |-> <<>>, sparse |-> <<>>, chunks |-> <<>>]
  /\ UNCHANGED <<documents, disk, life, limiterVars>>

\* performDenseRetrieval after generateEmbedding has settled, lines 66-94
DensePass ==
  /\ running.op = "hybridSearch"
  /\ running.pc = "generateEmbedding"
  /\ \E queryEmbedding \in {Embedded(<<3, 4>>), EmbeddingFailed} :
       running' = [running EXCEPT
                     !.pc = "performSparseRetrieval",
                     !.denseLoaded = queryEmbedding.ok,
                     !.denseStore = IF queryEmbedding.ok
                                    THEN loadVectorStore(documents) ELSE <<>>,
                     !.dense = performDenseRetrieval(documents, queryEmbedding,
                                                     running.documentIds)]
  /\ UNCHANGED <<documents, disk, life, limiterVars>>

\* performSparseRetrieval, then lines 31-43 of performHybridSearch
SparsePass ==
  /\ running.op = "hybridSearch"
  /\ running.pc = "performSparseRetrieval"
  /\ \E sparseResults \in {performSparseRetrieval(documents, HybridQuery,
                                                   running.documentIds)} :
       running' = [running EXCEPT
                     !.pc = "done",
                     !.sparseStore = loadVectorStore(documents),
                     !.sparse = sparseResults,
                     !.chunks =
                       Slice(applyDiversityFilter(
                               fuseSearchResults(running.dense, sparseResults,
                                                 HybridQuery),
                               thresholdOrDefault(NotConfigured)),
                             running.topK)]
  /\ UNCHANGED <<documents, disk, life, limiterVars>>

HybridReturn ==
  /\ running.op = "hybridSearch"
  /\ running.pc = "done"
  /\ running' = Idle
  /\ UNCHANGED <<documents, disk, life, limiterVars>>

\* another request's storeDocument (no metadata) while the search is awaiting
StoreByOtherRequest ==
  /\ running.op = "hybridSearch"
  /\ running.pc # "done"
  /\ \E in \in OtherStoreInputs, openFault \in BOOLEAN, writeFault \in BOOLEAN :
       LET o == writeOpen(disk, openFault, getFilePath(in.id))
           w == IF o.threw THEN o
                ELSE writeData(o.disk, writeFault, getFilePath(in.id), Arr(in.chunks))
       IN /\ documents' = storeInMemory(documents, in.id, in.chunks)
          /\ disk' = w.disk
  /\ UNCHANGED <<running, life, limiterVars>>

\* another request's deleteDocument while the search is awaiting
DeleteByOtherRequest ==
  /\ running.op = "hybridSearch"
  /\ running.pc # "done"
  /\ \E id \in BaseIds, faults \in BOOLEAN \X BOOLEAN :
       \E r \in {deleteDocument(documents, disk, faults, id)} :
         /\ documents' = r.documents
         /\ disk' = r.disk
  /\ UNCHANGED <<running, life, limiterVars>>

NextHybrid ==
  \/ HybridSearchCall
  \/ DensePass
  \/ SparsePass
  \/ HybridReturn
  \/ StoreByOtherRequest
  \/ DeleteByOtherRequest

SpecHybrid == InitHybrid /\ [][NextHybrid]_vars

(***************************************************************************)
(* Properties of the store's life                                          *)
(***************************************************************************)
Listed(docs, id) ==
  \E i \in 1..Len(getAllDocuments(docs)) : getAllDocuments(docs)[i] = id

\* C1: once storeDocument(id, chunks) has returned, getAllDocuments lists id;
\* once a later deleteDocument(id) has returned, getAllDocuments does not list
\* id and every searchSimilar(q, id, k) returns the empty list, whatever was
\* stored, deleted or read on other ids in between.
C1_Lifecycle ==
  /\ life = "stored" => Listed(documents, TrackedId)
  /\ life = "deleted" =>
       /\ ~Listed(documents, TrackedId)
       /\ \A q \in QueryEmbeddings, k \in 0..MaxTopK :
            searchSimilar(documents, q, TrackedId, k) = [status |-> "ok", out |-> <<>>]
  /\ (running.op = "searchSimilar" /\ running.id = TrackedId /\ running.life = "deleted")
       => (running.status = "ok" /\ running.out = <<>>)

C1_Witness ==
  /\ running.op = "searchSimilar"
  /\ running.id = TrackedId
  /\ running.life = "deleted"
  /\ MapHas(documents, OtherId)

\* C4: an upload that is answered with 200 met no disk I/O failure while its
\* document was persisted, and stored the full list of chunks produced from
\* the text.
C4_StorageErrorPropagated ==
  (/\ running.op = "store"
   /\ running.caller = "upload"
   /\ running.pc = "ret"
   /\ uploadResponse(storeDocumentOutcome(running.ioFailed)) = 200)
  => (/\ ~running.ioFailed
      /\ MapGet(documents, running.id) = Arr(running.produced))

\* C5: from the start of a storeDocument or deleteDocument on an id to its
\* return, no searchSimilar or getDocumentChunks on that id runs, and the
\* id's entry is the one this write made: no reader sees the write applied
\* in part.
C5_WriteExcludes ==
  /\ running.op \in {"store", "delete"} => running.observedBy = "none"
  /\ running.op = "store" =>
       (MapHas(documents, running.id)
          /\ MapGet(documents, running.id) = Arr(running.chunks))
  /\ running.op = "delete" => ~MapHas(documents, running.id)

C5_Witness ==
  /\ running.op = "store"
  /\ running.pc = "saveWrite"
  /\ MapHas(running.pre, running.id)
  /\ disk[getFilePath(running.id)] # Json(MapGet(documents, running.id))

\* C6: at every point of storeDocument, and so after a crash at that point,
\* the chunk file of a document is a complete file or absent, never a
\* partial one.
C6_AtomicPersist ==
  \A d \in BaseIds : disk[getFilePath(d)].kind # "torn"

\* C7: storeDocument(id, chunks) on an id that has an entry leaves exactly
\* the new chunk list as the entry of id, searchSimilar on id returns new
\* chunks only, and every other id's entry is as it was before the call.
C7_Overwrite ==
  running.op = "store" =>
    /\ MapHas(documents, running.id)
    /\ MapGet(documents, running.id) = Arr(running.chunks)
    /\ \A d \in (KeysOf(running.pre) \cup KeysOf(documents)) \ {running.id} :
         /\ MapHas(running.pre, d) /\ MapHas(documents, d)
         /\ MapGet(running.pre, d) = MapGet(documents, d)
    /\ \A q \in QueryEmbeddings, k \in 0..MaxTopK :
         LET r == searchSimilar(documents, q, running.id, k)
         IN \A i \in 1..Len(r.out) :
              \E j \in 1..Len(running.chunks) : running.chunks[j] = r.out[i]

C7_Witness ==
  /\ running.op = "store"
  /\ running.pc = "ret"
  /\ MapHas(running.pre, running.id)
  /\ MapGet(running.pre, running.id) = Arr(<<chunkA>>)
  /\ running.chunks = <<chunkB, chunkA>>
  /\ MapHas(documents, OtherId)

\* C9: searchSimilar on an id the store does not hold returns the empty list,
\* raises nothing, and leaves memory and disk as they were.
C9_UnknownIdEmpty ==
  (running.op = "searchSimilar" /\ ~running.known) =>
    /\ running.status = "ok"
    /\ running.out = <<>>
    /\ documents = running.pre
    /\ disk = running.preDisk

C9_Witness ==
  /\ running.op = "searchSimilar"
  /\ ~running.known
  /\ documents # <<>>

FaultPairs == {<<a, b>> : a \in BOOLEAN, b \in BOOLEAN}

PadFaults(f) == IF Len(f) = 1 THEN <<f[1], FALSE>> ELSE f

\* C10: deleteDocument never rejects; on an id with no entry and no files it
\* changes nothing; applied a second time, under the same file-system
\* behaviour or after a first call that met no rejected unlink, it leaves
\* memory and disk as the first call left them.  The stepwise deletion
\* ends in the state the function gives.
C10_DeleteIdempotent ==
  /\ \A id \in BaseIds, f \in FaultPairs :
       LET once == deleteDocument(documents, disk, f, id)
           twice == deleteDocument(once.documents, once.disk, f, id)
       IN /\ once.status = "resolved"
          /\ twice = once
  /\ \A id \in BaseIds, f \in FaultPairs :
       LET once == deleteDocument(documents, disk, <<FALSE, FALSE>>, id)
       IN deleteDocument(once.documents, once.disk, f, id) = once
  /\ \A id \in BaseIds, f \in FaultPairs :
       (/\ ~MapHas(documents, id)
        /\ disk[getFilePath(id)].kind = "absent"
        /\ disk[getMetadataPath(id)].kind = "absent")
       => deleteDocument(documents, disk, f, id)
            = [documents |-> documents, disk |-> disk, status |-> "resolved"]
  /\ (running.op = "delete" /\ running.pc = "ret") =>
       LET r == deleteDocument(running.pre, running.preDisk,
                               PadFaults(running.faults), running.id)
       IN documents = r.documents /\ disk = r.disk

C10_Witness ==
  /\ running.op = "delete"
  /\ running.pc = "ret"
  /\ running.repeat
  /\ documents = running.pre
  /\ disk = running.preDisk
  /\ MapHas(documents, OtherId)

(***************************************************************************)
(* Properties of retrieval                                                 *)
(***************************************************************************)
CountIn(s, x) == Cardinality({i \in 1..Len(s) : s[i] = x})

\* C8: a searchSimilar that returns gives min(topK, number of chunks) chunks
\* of the document, so at most topK, in non-increasing order of their cosine
\* score against the query, and every chunk of the document it leaves out
\* scores no higher than any chunk it returns.
C8_TopKSorted ==
  (running.op = "searchSimilar" /\ running.known /\ running.status = "ok") =>
    LET chunks == MapGet(documents, running.id).items
        out == running.out
        score(c) == storeCosineSimilarity(running.q, c.embedding).val
    IN /\ Len(out) <= running.topK
       /\ Len(out) = (IF running.topK < Len(chunks) THEN running.topK ELSE Len(chunks))
       /\ \A i \in 1..(Len(out) - 1) : Ge(score(out[i]), score(out[i + 1]))
       /\ \A i \in 1..Len(out) : CountIn(out, out[i]) <= CountIn(chunks, out[i])
       /\ \A j \in 1..Len(chunks) :
            CountIn(out, chunks[j]) < CountIn(chunks, chunks[j])
              => \A i \in 1..Len(out) : Ge(score(out[i]), score(chunks[j]))

C8_Witness ==
  /\ running.op = "searchSimilar"
  /\ running.known
  /\ running.status = "ok"
  /\ running.topK = 1
  /\ Len(running.out) = 1
  /\ LET chunks == MapGet(documents, running.id).items
     IN /\ Len(chunks) = 2
        /\ running.out[1] = chunks[2]
        /\ Gt(storeCosineSimilarity(running.q, chunks[2].embedding).val,
              storeCosineSimilarity(running.q, chunks[1].embedding).val)

\* C2: when the chat request names a document, every context its retrieval
\* yields is a chunk of that document, whichever strategy was selected.
C2_ScopeRespected ==
  (running.op = "chat" /\ running.documentId # NoDocument) =>
    \A i \in 1..Len(running.contexts) :
      running.contexts[i].documentId = running.documentId

\* some chunk the search over the documents `ids` scans has an embedding of
\* another length than the query's
Mismatched(docs, q, ids) ==
  \E i \in 1..Len(docs) :
    /\ docs[i].id \in ids
    /\ \E j \in 1..Len(docs[i].val.items) :
         Len(docs[i].val.items[j].embedding) # Len(q)

\* C3: a search that meets a stored embedding of another length than the
\* query's fails with the dimension-mismatch error, in searchSimilar, in
\* searchAcrossAllDocuments and in the dense pass of the hybrid search.
C3_DimensionMismatchSurfaced ==
  /\ (running.op = "searchSimilar"
        /\ Mismatched(documents, running.q, {running.id}))
       => running.status = "Vector dimensions must match"
  /\ (running.op = "searchAcrossAllDocuments"
        /\ Mismatched(documents, running.q, KeysOf(documents)))
       => running.status = "Vector dimensions must match"
  /\ (running.op = "performHybridSearch"
        /\ running.queryEmbedding.ok
        /\ Mismatched(documents, running.queryEmbedding.v,
                      IF running.documentIds.defined THEN running.documentIds.ids
                      ELSE KeysOf(documents)))
       => running.status = "Vector dimensions must match"

\* the results searchAcrossAllDocuments may draw from: one per stored chunk
\* position whose cosine score against q is above 3/10
RelevantPositions(docs, q) ==
  {pos \in UNION {{<<i, j>> : j \in 1..Len(docs[i].val.items)} : i \in 1..Len(docs)} :
     /\ Gt(storeCosineSimilarity(q, docs[pos[1]].val.items[pos[2]].embedding).val,
           Rat(3, 10))}

ResultAt(docs, q, pos) ==
  [documentId |-> docs[pos[1]].id,
   chunk |-> docs[pos[1]].val.items[pos[2]],
   similarity |-> storeCosineSimilarity(q, docs[pos[1]].val.items[pos[2]].embedding).val]

\* C11: a searchAcrossAllDocuments that returns gives results of stored
\* chunks of any document, each with its cosine score and that score above
\* 0.3; it gives min(topK, number of such results) of them in non-increasing
\* score order, no result it leaves out scores higher than one it returns,
\* and on an empty store it returns the empty list.
C11_AcrossAllTopK ==
  (running.op = "searchAcrossAllDocuments" /\ running.status = "ok") =>
    LET relevant == RelevantPositions(documents, running.q)
        out == running.out
        from(e) == {pos \in relevant : ResultAt(documents, running.q, pos) = e}
    IN /\ Len(out) = (IF running.topK < Cardinality(relevant) THEN running.topK
                      ELSE Cardinality(relevant))
       /\ \A i \in 1..Len(out) :
            /\ from(out[i]) # {}
            /\ CountIn(out, out[i]) <= Cardinality(from(out[i]))
            /\ Gt(out[i].similarity, Rat(3, 10))
       /\ \A i \in 1..(Len(out) - 1) : Ge(out[i].similarity, out[i + 1].similarity)
       /\ \A pos \in relevant :
            LET e == ResultAt(documents, running.q, pos)
            IN CountIn(out, e) < Cardinality(from(e))
                 => \A i \in 1..Len(out) : Ge(out[i].similarity, e.similarity)
       /\ documents = <<>> => out = <<>>

C11_Witness ==
  /\ running.op = "searchAcrossAllDocuments"
  /\ running.status = "ok"
  /\ Len(running.out) = 2
  /\ Cardinality(RelevantPositions(documents, running.q)) = 3
  /\ running.out[1].documentId = OtherId
  /\ running.out[2].documentId = TrackedId
  /\ \E i \in 1..Len(documents) : \E j \in 1..Len(documents[i].val.items) :
       ~Gt(storeCosineSimilarity(running.q, documents[i].val.items[j].embedding).val,
           Rat(3, 10))

\* C12: the chunks a hybrid search returns under a configured diversity
\* threshold hold no two entries whose word-level Jaccard similarity is above
\* that threshold, and the first of the fused results is the first returned.
C12_DiversityFiltered ==
  (running.op = "performHybridSearch" /\ running.diversityThreshold.defined) =>
    /\ \A i \in 1..Len(running.chunks) : \A j \in (i + 1)..Len(running.chunks) :
         ~Gt(textSimilarity(running.chunks[i].text, running.chunks[j].text),
             running.diversityThreshold.value)
    /\ running.fused # <<>> =>
         (running.chunks # <<>> /\ running.chunks[1] = running.fused[1])

SameNumber(x, y) == ~IsNaN(x) /\ ~IsNaN(y) /\ x.n * y.d = y.n * x.d

KeysIn(results) == {keyOf(results[i]) : i \in 1..Len(results)}

\* C13: the fused list has one entry per chunk of the dense or the sparse
\* list.  A chunk of both lists scores exactly 1/(60+rd) + 1/(60+rs), rd and
\* rs its 1-based ranks in the two lists; a chunk of the dense list only
\* scores its dense score times the dense weight (0.7 for a definition query,
\* else 0.6); a chunk of the sparse list only scores its sparse score times
\* one minus the dense weight.
C13_RankFusion ==
  running.op = "performHybridSearch" =>
    LET dense == running.dense
        sparse == running.sparse
        fused == running.fused
        denseWeight == IF running.queryAnalysis.intent = "definition"
                       THEN Rat(7, 10) ELSE Rat(6, 10)
        sparseWeight == IF running.queryAnalysis.intent = "definition"
                        THEN Rat(3, 10) ELSE Rat(4, 10)
    IN /\ KeysIn(fused) = KeysIn(dense) \cup KeysIn(sparse)
       /\ Cardinality(KeysIn(fused)) = Len(fused)
       /\ \A i \in 1..Len(fused) :
            LET rd == rankIn(dense, keyOf(fused[i]))
                rs == rankIn(sparse, keyOf(fused[i]))
            IN SameNumber(fused[i].score,
                 IF rd > 0 /\ rs > 0 THEN Add(Rat(1, 60 + rd), Rat(1, 60 + rs))
                 ELSE IF rd > 0 THEN Mul(dense[rd].score, denseWeight)
                 ELSE Mul(sparse[rs].score, sparseWeight))

C13_Witness ==
  /\ running.op = "performHybridSearch"
  /\ \E k \in KeysIn(running.fused) :
       /\ rankIn(running.dense, k) > 0
       /\ rankIn(running.sparse, k) > 0
       /\ rankIn(running.dense, k) # rankIn(running.sparse, k)
  /\ \E k \in KeysIn(running.fused) : rankIn(running.sparse, k) = 0
  /\ \E k \in KeysIn(running.fused) : rankIn(running.dense, k) = 0

\* C14: in every round of a multi-stage retrieval, what is appended is part
\* of what the round's search found, and each appended chunk is less than
\* 0.8 word-Jaccard-similar to every chunk accumulated in earlier rounds.
C14_NoSimilarReAdded ==
  running.op = "chat" =>
    \A r \in 1..Len(running.rounds) :
      LET round == running.rounds[r] IN
      \A i \in 1..Len(round.added) :
        /\ \E j \in 1..Len(round.found) : round.found[j] = round.added[i]
        /\ \A k \in 1..Len(round.before) :
             ~Ge(textSimilarity(round.added[i].text, round.before[k].text), Rat(8, 10))


(***************************************************************************)
(* Properties of a chat request                                            *)
(***************************************************************************)
Selected == running.op = "adaptiveChat" /\ "selector" \in DOMAIN running

\* the scope the simple retrieval of the running request searches
simpleScope ==
  IF running.documentId # NoDocument THEN Only({running.documentId})
  ELSE AllDocuments

\* C15: when the completion of the strategy selector throws or is no JSON,
\* the strategy is simple with confidence 0.5, the retrieval of a document
\* question is the hybrid search of the simple strategy, and the request is
\* answered unless answer generation itself fails
C15_SelectorFallback ==
  (Selected /\ running.selector \in {"fails", "unparsable"}) =>
    /\ ~(running.pc = "done" /\ running.calls[Len(running.calls)].to
                                  = "selectRetrievalStrategy")
    /\ running.retrievalStrategy.strategy = "simple"
    /\ running.retrievalStrategy.confidence = Rat(1, 2)
    /\ "contexts" \in DOMAIN running =>
         \E run \in EmbeddingRuns :
           running.contexts =
             performHybridSearch(documents, running.queryAnalysis,
                                 EmbeddingAt(run, 1), simpleScope, SimpleTopK,
                                 Configured(RouteDiversity)).chunks
    /\ (running.pc = "done" /\ running.response.status # 200) =>
         /\ running.calls[Len(running.calls)].to
              \in {"generateReasonedAnswer", "generateAnswer"}
         /\ "enhancedAnswer" \in DOMAIN running => running.enhancedAnswer.kind = "fails"

C15_Witness ==
  /\ Selected
  /\ running.selector = "fails"
  /\ running.pc = "done"
  /\ running.response.kind = "answer"
  /\ running.retrievalStrategy.strategy = "simple"
  /\ Len(running.response.sources) > 0

\* C16: when the completion of the query analyzer throws or is no JSON,
\* expandQuery returns the query as its own expansion with intent question,
\* no entities, no keywords and confidence 0.5, and the route goes on
C16_AnalyzerFallback ==
  (running.op = "adaptiveChat" /\ "analyzer" \in DOMAIN running
     /\ running.analyzer \in {"fails", "unparsable"}) =>
    /\ "queryAnalysis" \in DOMAIN running
    /\ running.queryAnalysis.expandedQuery = running.queryAnalysis.originalQuery
    /\ running.queryAnalysis.originalQuery = running.sanitizedQuestion
    /\ running.queryAnalysis.intent = "question"
    /\ running.queryAnalysis.entities = <<>>
    /\ running.queryAnalysis.keywords = <<>>
    /\ running.queryAnalysis.confidence = Rat(1, 2)

C16_Witness ==
  /\ running.op = "adaptiveChat"
  /\ running.pc = "selectRetrievalStrategy"
  /\ running.analyzer = "unparsable"
  /\ running.queryAnalysis.originalQuery = <<"alpha", "compare">>

\* a text with a character that is no whitespace
NonBlank(text) == \E i \in 1..Len(text) : text[i] # ""

\* C17: a request that fails validation makes no call, and the text a request
\* hands to query analysis, strategy selection and embedding generation is
\* never empty or whitespace-only
C17_NoEmptyQueryToOracle ==
  running.op \in {"adaptiveChat", "basicChat"} =>
    /\ running.response = ValidationError => running.calls = <<>>
    /\ \A i \in 1..Len(running.calls) :
         running.calls[i].to
           \in {"expandQuery", "selectRetrievalStrategy", "generateEmbedding"}
         => NonBlank(running.calls[i].text)

\* an adaptive request that was answered from its contexts
AnsweredFromContexts ==
  /\ running.op = "adaptiveChat"
  /\ running.pc = "done"
  /\ running.response.kind = "answer"

\* the three estimates of the running request: the oracle's, the formula's,
\* and the mean over the contexts of trustworthiness x authority x score
oracleEstimate == running.enhancedAnswer.confidence

formulaEstimate == running.formulaConfidence

metadataEstimate ==
  Mul(Mul(Rat(56, 100), SumScores(running.contexts)), Rat(1, Len(running.contexts)))

\* C18: the confidence of an answer is the largest of the three estimates, or
\* 1.0 when that is above 1.0
C18_MaxOfEstimatesCapped ==
  AnsweredFromContexts =>
    \E largest \in {oracleEstimate, formulaEstimate, metadataEstimate} :
      /\ \A e \in {oracleEstimate, formulaEstimate, metadataEstimate} : Ge(largest, e)
      /\ running.response.confidence =
           IF Gt(largest, Rat(1, 1)) THEN Rat(1, 1) ELSE largest

\* an answer whose oracle estimate is above 1.0 while the other two are not
C18_Witness ==
  /\ AnsweredFromContexts
  /\ Gt(oracleEstimate, Rat(1, 1))
  /\ running.response.confidence = Rat(1, 1)
  /\ Gt(Rat(1, 1), formulaEstimate)
  /\ Gt(metadataEstimate, Rat(0, 1))

\* the four weighted terms of the formula for the running request
weightedTerms ==
  LET meanContextScore ==
        Mul(SumScores(running.contexts), Rat(1, Len(running.contexts)))
      lengthTerm ==
        IF running.enhancedAnswer.answerLength >= 500 THEN Rat(1, 1)
        ELSE Norm(running.enhancedAnswer.answerLength, 500)
      countTerm ==
        IF Len(running.contexts) >= 5 THEN Rat(1, 1)
        ELSE Norm(Len(running.contexts), 5)
  IN Add(Add(Mul(Rat(3, 10), running.queryAnalysis.confidence),
             Mul(Rat(3, 10), meanContextScore)),
         Add(Mul(Rat(2, 10), lengthTerm), Mul(Rat(2, 10), countTerm)))

\* C19: the formulaic confidence of an answer is 0.3 x the analysis'
\* confidence + 0.3 x the mean context score + 0.2 x min(answerLength/500, 1)
\* + 0.2 x min(contextCount/5, 1), and nothing else
C19_FormulaicConfidence ==
  AnsweredFromContexts => running.formulaConfidence = weightedTerms

\* an answer whose confidence is the oracle's estimate, the largest of the
\* three and below the cap
C18_WitnessOracle ==
  /\ AnsweredFromContexts
  /\ running.response.confidence = oracleEstimate
  /\ Gt(oracleEstimate, formulaEstimate)
  /\ Gt(formulaEstimate, metadataEstimate)

\* the retrieval of the running request returned, and returned nothing
ZeroContexts ==
  /\ running.op \in {"adaptiveChat", "basicChat"}
  /\ "contexts" \in DOMAIN running
  /\ Len(running.contexts) = 0

\* C20: a request whose retrieval finds no context ends with status 200, no
\* sources and confidence 0, and has called no answer generation
C20_ZeroContextsTerminal ==
  ZeroContexts =>
    /\ running.pc = "done"
    /\ running.response.status = 200
    /\ running.response.sources = <<>>
    /\ running.response.confidence = Rat(0, 1)
    /\ \A i \in 1..Len(running.calls) :
         running.calls[i].to \notin {"generateReasonedAnswer", "generateAnswer"}

C20_Witness ==
  /\ ZeroContexts
  /\ running.op = "adaptiveChat"
  /\ documents # <<>>
  /\ running.documentId = UnknownId
  /\ running.retrievalStrategy.strategy = "simple"

\* C24: the strategy selectRetrievalStrategy returns, and the route switches
\* on, is one of simple, multi_stage, knowledge_graph, multimodal and
\* expert_domain, whatever the completion holds
C24_StrategyInTaxonomy ==
  Selected => running.retrievalStrategy.strategy \in Strategies

\* the embeddings of the chunks the store holds
StoredEmbeddings ==
  UNION {{getDocumentChunks(documents, id).items[i].embedding :
            i \in 1..Len(getDocumentChunks(documents, id).items)} :
         id \in KeysOf(documents)}

ZeroMagnitude(v) == Dot(v, v, 1) = 0

\* C25: the similarity of a query and a stored chunk is a number, and it is 0
\* when either vector has zero magnitude, in the store's searchSimilar and in
\* the dense pass of the hybrid search
C25_ZeroMagnitudeIsZero ==
  /\ running.op = "searchSimilar" =>
       \A e \in StoredEmbeddings :
         LET similarity == storeCosineSimilarity(running.q, e) IN
         ~similarity.threw =>
           /\ ~IsNaN(similarity.val)
           /\ (ZeroMagnitude(running.q) \/ ZeroMagnitude(e))
                => similarity.val = Rat(0, 1)
  /\ (running.op = "performHybridSearch" /\ running.queryEmbedding.ok) =>
       \A e \in StoredEmbeddings :
         LET similarity == cosineSimilarity(running.queryEmbedding.v, e) IN
         /\ ~IsNaN(similarity)
         /\ (ZeroMagnitude(running.queryEmbedding.v) \/ ZeroMagnitude(e))
              => similarity = Rat(0, 1)

\* a result list without the chunk of a key
WithoutKey(results, key) == SelectSeq(results, LAMBDA c : keyOf(c) # key)

\* C29: a chunk of the dense list that the sparse list holds too stands in
\* the fused ranking at least as high as it would with the same dense list
\* and the sparse list without it
C29_FusionMonotone ==
  running.op = "performHybridSearch" =>
    \A key \in KeysIn(running.dense) \cap KeysIn(running.sparse) :
      rankIn(fuseSearchResults(running.dense, running.sparse,
                               running.queryAnalysis), key)
        <= rankIn(fuseSearchResults(running.dense,
                                    WithoutKey(running.sparse, key),
                                    running.queryAnalysis), key)

\* C30: the contexts a multi-stage retrieval returns are pairwise at most 0.8
\* word-Jaccard-similar
C30_ResultPairwiseDistinct ==
  (running.op = "chat" /\ running.branch = "document"
     /\ running.strategy \in {"multi_stage", "expert_domain"}) =>
    \A i, j \in 1..Len(running.contexts) :
      i < j => ~Gt(textSimilarity(running.contexts[i].text,
                                  running.contexts[j].text),
                   DedupThreshold)

\* the store a new process would construct from the data directory
freshStore == loadFromDisk(disk, readdirSync(disk))

\* the id under which a sidecar metadata file would be listed
sidecarId(documentId) == documentId \o <<"-metadata">>

\* C27: whenever no call is running, a store constructed afresh from the data
\* directory lists exactly the ids the store holds (those stored and not
\* deleted since), each with the chunk array last stored for it, and lists no
\* sidecar metadata file as a document
C27_RestartRoundTrip ==
  running = Idle =>
    /\ KeysOf(freshStore) = KeysOf(documents)
    /\ \A id \in KeysOf(documents) :
         MapHas(freshStore, id) => MapGet(freshStore, id) = MapGet(documents, id)
    /\ \A id \in BaseIds : ~MapHas(freshStore, sidecarId(id))

\* C26: of the requests a limiter admitted for one client, no more than
\* maxRequests lie in any time interval shorter than windowMs
C26_AtMostMaxPerWindow ==
  \A identifier \in Clients :
    LET times == admittedTo(identifier) IN
    \A i, j \in 1..Len(times) :
      (i <= j /\ times[j] - times[i] < limiter.windowMs)
        => j - i + 1 <= limiter.maxRequests

searchesOf(events) == SelectSeq(events, LAMBDA e : e.kind = "search")

refinementsOf(events) == SelectSeq(events, LAMBDA e : e.kind = "refine")

FinishedStages == running.op = "multiStage" /\ running.pc = "done"

InStages == running.op = "multiStage"

\* C22: a multi-stage retrieval runs no more search rounds than its stages (4
\* for expert_domain, 3 when the strategy names none), its searches and
\* refinement calls alternate, and every round after the first starts from the
\* contexts the round before left and searches with the query the refinement
\* call between them produced
C22_SequentialRounds ==
  InStages =>
    LET events == running.events
        limit == IF running.strategy = "expert_domain" THEN 4
                 ELSE IF running.stagesParameter = 0 THEN 3
                 ELSE running.stagesParameter
    IN /\ Len(searchesOf(events)) <= limit
       /\ \A i \in 1..Len(events) :
            /\ events[i].kind = (IF i % 2 = 1 THEN "search" ELSE "refine")
            /\ events[i].stage = (i - 1) \div 2
       /\ events # <<>> =>
            /\ events[1].query = StageQuery.expandedQuery
            /\ events[1].before = <<>>
       /\ \A i \in 3..Len(events) :
            events[i].kind = "search" =>
              /\ events[i].query = events[i - 1].query
              /\ events[i].before = events[i - 2].contexts

C22_Witness ==
  /\ FinishedStages
  /\ running.strategy = "expert_domain"
  /\ Len(searchesOf(running.events)) = 4
  /\ \E i \in 1..Len(running.events) :
       /\ running.events[i].kind = "refine"
       /\ running.events[i].query = <<"alpha", "gamma">>

\* ten or more contexts whose mean score is above 0.8
Sufficient(contexts) ==
  /\ Len(contexts) >= 10
  /\ Gt(Mul(SumScores(contexts), Rat(1, Len(contexts))), Rat(8, 10))

\* C23: no search round follows a round that ended with ten or more contexts
\* of mean score above 0.8, and a retrieval that finished after fewer rounds
\* than its stages ended its last round that way
C23_EarlyStopExactly ==
  InStages =>
    LET rounds == searchesOf(running.events) IN
    /\ \A i \in 1..Len(rounds) :
         Sufficient(rounds[i].contexts) => i = Len(rounds)
    /\ (FinishedStages /\ Len(rounds) < running.stages)
         => Sufficient(rounds[Len(rounds)].contexts)
    /\ (running.pc = "retrieveForStage" /\ rounds # <<>>)
         => ~Sufficient(rounds[Len(rounds)].contexts)

C23_Witness ==
  /\ FinishedStages
  /\ running.stages = 3
  /\ Len(searchesOf(running.events)) = 2
  /\ Len(running.contexts) = 10

\* the chunks a pass had before it, each under its (documentId, chunkIndex) key
scoredBy(vectorStore) ==
  UNION {{[documentId |-> vectorStore[d].docId, chunkIndex |-> i - 1,
           chunk |-> vectorStore[d].chunks.items[i]] :
          i \in 1..Len(vectorStore[d].chunks.items)} : d \in 1..Len(vectorStore)}

====
